---- MODULE Spec2Model ----
(***************************************************************************)
(* Voice2Machine daemon: the streaming transcriber (commit & flush loop),  *)
(* the orchestrator's recording guard, the WebSocket broadcast and the     *)
(* file transcription path, as one state machine.                          *)
(*                                                                         *)
(* Units: wall-clock time and audio durations are in milliseconds          *)
(* (the code uses float seconds); 16 samples are one millisecond.          *)
(* Python's None is NoTime / NoTask / NoClient.                            *)
(***************************************************************************)
EXTENDS Integers, Sequences, FiniteSets, TLC

\* ------------------------------------------------------------------ bounds
MaxChunks == 5
MaxRequests == 3
MaxWsEvents == 3
MaxFiles == 2
MaxReads == 4
max_samples == 3
MaxCallbacks == 4
MaxStarts == 3
MaxJobs == 3
MaxCalls == 2
MaxExtractions == 2

\* ------------------------------------------------------- program constants
DEFAULT_SILENCE_COMMIT_MS == 800
min_silence_duration_ms == 500
MIN_SEGMENT_DURATION == 500
PROVISIONAL_INTERVAL == 500
CONTEXT_WINDOW_CHARS == 200
PRE_ROLL_CHUNKS == 3
SAMPLE_RATE == 16000
BATCHED_THRESHOLD_MS == 30000
CHUNK_SIZE == 512
LANG_MIN == 2
LANG_MAX == 20
FFMPEG_TIMEOUT_VIDEO == 300
FFMPEG_TIMEOUT_AUDIO == 120

\* energy and threshold are in tenths: the configured threshold 0.3 is 3
threshold == 3

\* getattr(vad_config, ...) finds both fields of VadParametersConfig, so the
\* configured values apply and DEFAULT_SILENCE_COMMIT_MS is not used.
_silence_commit_ms == min_silence_duration_ms
_speech_threshold == threshold

NoTime == -1
NoTask == 0
NoClient == "-"

\* The connection a send is waiting on has been closed by its client.
GoneClient == "gone"

\* ------------------------------------------------------------ input domains
Clients == {"a", "b"}
ChunkSamples == {8000}
Energies == {0, 5}
Deltas == {600}

\* Finer inputs of the timing specification: a chunk of 250 ms read half a
\* second after the previous one, or a chunk of 125 ms read 600 ms after it.
FineChunks ==
    { [samples |-> 4000, delta |-> 500], [samples |-> 2000, delta |-> 600] }
FileDurations == {30000, 45000}
ReadSizes == {0, 200, 500, 512, 1100}
FrameSizes == {1, 2}

RECURSIVE Rep(_, _)
Rep(s, n) == IF n = 0 THEN "" ELSE s \o Rep(s, n - 1)

LongText == " " \o Rep("lorem ips ", 25)

\* What the recognizer hands back for one job: the texts of its segments, or
\* an exception (ok = FALSE).
InferenceOutcomes ==
    { [ok |-> FALSE, segs |-> <<>>],
      [ok |-> TRUE, segs |-> <<"">>],
      [ok |-> TRUE, segs |-> <<" ", " ">>],
      [ok |-> TRUE, segs |-> <<" hola", "", " mundo ">>],
      [ok |-> TRUE, segs |-> <<LongText>>] }

\* The outcomes tried for a provisional inference (the one-segment long text
\* is tried for finals only).
ProvisionalOutcomes == {o \in InferenceOutcomes : o.segs # <<LongText>>}

\* ------------------------------------------------------------ pure helpers
RECURSIVE LStrip(_)
LStrip(s) ==
    IF Len(s) > 0 /\ SubSeq(s, 1, 1) = " " THEN LStrip(SubSeq(s, 2, Len(s))) ELSE s

RECURSIVE RStrip(_)
RStrip(s) ==
    IF Len(s) > 0 /\ SubSeq(s, Len(s), Len(s)) = " "
    THEN RStrip(SubSeq(s, 1, Len(s) - 1))
    ELSE s

\* str.strip()
Strip(s) == RStrip(LStrip(s))

\* s[-n:]
LastChars(s, n) == IF Len(s) <= n THEN s ELSE SubSeq(s, Len(s) - n + 1, Len(s))

\* " ".join(parts)
RECURSIVE JoinSpace(_)
JoinSpace(parts) ==
    IF parts = <<>> THEN ""
    ELSE IF Len(parts) = 1 THEN parts[1]
    ELSE parts[1] \o " " \o JoinSpace(Tail(parts))

\* [s.text.strip() for s in segments if s.text]
RECURSIVE StrippedTexts(_)
StrippedTexts(segs) ==
    IF segs = <<>> THEN <<>>
    ELSE IF Head(segs) = "" THEN StrippedTexts(Tail(segs))
    ELSE <<Strip(Head(segs))>> \o StrippedTexts(Tail(segs))

\* The text _infer_provisional / _infer_final return for a recognizer outcome:
\* the joined segment texts, or "" when run_inference raised.
InferText(outcome) ==
    IF outcome.ok THEN JoinSpace(StrippedTexts(outcome.segs)) ELSE ""

_build_context_prompt(cw) ==
    IF cw = "" THEN "" ELSE LastChars(cw, CONTEXT_WINDOW_CHARS)

update_untrimmed(cw, text) ==
    LET clean_text == Strip(text)
    IN  IF clean_text # "" THEN cw \o " " \o clean_text ELSE cw

update_clearing(cw, text) ==
    LET clean_text == Strip(text)
    IN  IF clean_text # ""
        THEN LastChars(cw \o " " \o clean_text, CONTEXT_WINDOW_CHARS)
        ELSE ""

_update_context_window(cw, text) ==
    LET clean_text == Strip(text)
    IN  IF clean_text # ""
        THEN LastChars(cw \o " " \o clean_text, CONTEXT_WINDOW_CHARS)
        ELSE cw

_detect_speech_energy(chunk, thr) ==
    IF chunk.samples = 0 THEN FALSE ELSE chunk.energy > thr

\* len(c) / 16000, in milliseconds
ChunkMs(chunk) == (chunk.samples * 1000) \div SAMPLE_RATE

RECURSIVE SumMs(_)
SumMs(chunks) ==
    IF chunks = <<>> THEN 0 ELSE ChunkMs(Head(chunks)) + SumMs(Tail(chunks))

\* ---------------------------------------------------------------- state
VARIABLES
    _is_recording,        \* Orchestrator._is_recording
    recording_flag,       \* config.paths.recording_flag exists
    _recording,           \* AudioRecorder._recording
    _streaming_task,      \* StreamingTranscriber._streaming_task (index into tasks)
    _stop_event,          \* StreamingTranscriber._stop_event
    _context_window,      \* StreamingTranscriber._context_window
    _silence_start,       \* StreamingTranscriber._silence_start
    _pre_roll_buffer,     \* StreamingTranscriber._pre_roll_buffer
    tasks,                \* every _loop() task created, with its locals
    _websocket_clients,   \* DaemonState._websocket_clients
    emitted,              \* history: every emit_event call, in order
    commits,              \* history: every final inference of a commit
    requests,             \* history: every /start, /stop, /toggle and its response
    now,                  \* time.time()
    chunk_no,             \* chunks read from the recorder so far
    ws_events,            \* WebSocket connects and disconnects so far
    file_jobs,            \* file transcriptions: their state, in call order
    shutdown,             \* Orchestrator.shutdown(): how far it got, what it did
    ras,                  \* RustAudioStream.__aiter__: its locals and history
    rec,                  \* AudioRecorder: its fields, its threads, its history
    whisper,              \* WhisperTranscriptionService: _model, its jobs
    llm,                  \* process_text / translate_text: calls, clipboard
    ffmpeg,               \* _extract_audio_async: requests and subprocesses
    lazy_model            \* WhisperTranscriptionService.model read by two threads

\* The components outside the daemon's streaming path.
componentVars == << ras, rec, whisper, llm, ffmpeg, lazy_model >>

\* The daemon: orchestrator, streaming transcriber, subscribers, file jobs.
daemonVars ==
    << _is_recording, recording_flag, _recording, _streaming_task, _stop_event,
       _context_window, _silence_start, _pre_roll_buffer, tasks,
       _websocket_clients, emitted, commits, requests, now, chunk_no,
       ws_events, file_jobs, shutdown >>

vars == << daemonVars, componentVars >>

\* What the actions of one component leave alone.
exceptRas == << daemonVars, rec, whisper, llm, ffmpeg, lazy_model >>
exceptRec == << daemonVars, ras, whisper, llm, ffmpeg, lazy_model >>
exceptWhisper == << daemonVars, ras, rec, llm, ffmpeg, lazy_model >>
exceptLlm == << daemonVars, ras, rec, whisper, ffmpeg, lazy_model >>
exceptFfmpeg == << daemonVars, ras, rec, whisper, llm, lazy_model >>
exceptLazyModel == << daemonVars, ras, rec, whisper, llm, ffmpeg >>

streamVars == << _is_recording, recording_flag, _recording, _streaming_task,
                 _stop_event, _context_window, _silence_start, _pre_roll_buffer,
                 tasks, _websocket_clients, emitted, commits, requests, now,
                 chunk_no, ws_events >>

\* Orchestrator.shutdown() has not been called. phase: "no", "stopping" (in or
\* past `await self.stop()`), "done" (returned) or "raised"; req: the request
\* entry of its stop(); worker: _worker was set; unloaded: unload() returned.
NotShutDown == [phase |-> "no", req |-> 0, worker |-> FALSE, unloaded |-> FALSE]

\* RustAudioStream.__aiter__ before its first read. pc: "wait" (awaiting
\* wait_for_data) or "yield" (suspended at the yield of the chunk at
\* start_idx); reads, yielded: history, every sample read (samples are numbered
\* in capture order) and every chunk yielded; n_reads: history.
NewStream ==
    [ pc |-> "wait", buffer_list |-> <<>>, buffer_len |-> 0,
      full_buffer |-> <<>>, start_idx |-> 0,
      reads |-> <<>>, yielded |-> <<>>, n_reads |-> 0 ]

\* np.zeros(max_samples): the samples captured are numbered from 1 in capture
\* order, 0 is the silence of a fresh buffer.
_allocate_buffer == [i \in 1..max_samples |-> 0]

\* _buffer = None
NoBuffer == <<>>

\* AudioRecorder.__init__ where the Rust engine was or was not built
\* (has_rust) and PortAudio is or is not installed (has_sd).
\*   cb_pc: the PortAudio thread, "idle", "locked" (in `with self._lock`,
\*          before the test of _recording) or "write" (past the test);
\*   stop_pc: the thread in stop(), "idle", "lock" (_recording cleared,
\*          before `with self._lock`) or "counted" (recorded_samples read);
\*   delivered, accepted, start_log, stop_log, returned, n_callbacks: history.
\*          delivered: samples handed to callbacks since the last start();
\*          accepted: those of callbacks that found _recording set.
AudioRecorder(has_rust, has_sd) ==
    [ _recording |-> FALSE, _rust_recorder |-> has_rust,
      HAS_SOUNDDEVICE |-> has_sd, engine |-> "none", _stream |-> FALSE,
      _buffer |-> IF ~has_rust /\ has_sd THEN _allocate_buffer ELSE NoBuffer,
      _write_pos |-> 0,
      cb_pc |-> "idle", indata |-> <<>>,
      stop_pc |-> "idle", recorded_samples |-> 0,
      n_captured |-> 0, n_callbacks |-> 0,
      delivered |-> <<>>, accepted |-> <<>>,
      start_log |-> <<>>, stop_log |-> <<>>, returned |-> <<>> ]

\* WhisperTranscriptionService.__init__ with config.transcription.whisper.device
\* = device: nothing is loaded yet.
\*   pc: where the current job is, "idle" (no job), "load" (at line 74),
\*       "fallback" (at line 87) or "transcribe" (at model.transcribe);
\*   loads: the WhisperModel(...) calls of the current job so far;
\*   jobs: history, for each job that asked for the model the number of its
\*       WhisperModel(...) calls and how it ended.
WhisperTranscriptionService(device) ==
    [ _model |-> "None", device |-> device, pc |-> "idle", loads |-> 0,
      jobs |-> <<>> ]

\* No call of process_text or translate_text has finished.
NoCall ==
    [ impl |-> "-", op |-> "-", text |-> "", target_lang |-> <<>>,
      llm_called |-> FALSE, llm_ok |-> FALSE, refined |-> "",
      tool_ok |-> FALSE, returned |-> "", backend |-> "",
      notified |-> <<>>, clipboard_before |-> "" ]

\* The text services of the orchestrator and of the command handlers.
\*   clipboard: what the system clipboard holds;
\*   in_flight: the calls suspended in their await of the LLM port;
\*   last: history, the call that finished last; n_calls, llm_calls: history.
NoTextCalls ==
    [ clipboard |-> "earlier", in_flight |-> <<>>, last |-> NoCall,
      n_calls |-> 0, llm_calls |-> 0 ]

\* No file was handed to FileTranscriptionService.transcribe_file.
\*   extractions: the calls of _extract_audio_async, for each its position
\*       (pc "communicate": in await wait_for(proc.communicate(), timeout);
\*       "done"), the seconds it has waited, its subprocess and its outcome;
\*   procs: the ffmpeg subprocesses spawned, for each whether it runs and
\*       whether it was waited for (reaped) and its exit code.
NoExtractions == [ extractions |-> <<>>, procs |-> <<>> ]

\* The threads that read WhisperTranscriptionService.model: the "warmup"
\* executor's (Container._preload_models) and the ML executor's, which runs
\* stop_and_transcribe.
Threads == {"warmup", "ml"}

\* Python's None for _model; a model instance is the number of its construction.
NoModel == 0

\* The service before anything read its model property.
\*   _model: the attribute; built: the WhisperModel instances constructed;
\*   thr: for each thread where it is in the property, "idle" (outside), "load"
\*        (in WhisperModel(...) of line 74), "fallback" (line 87), "loaded"
\*        (past the assignment, before `return self._model`), "returned" or
\*        "raised"; got: the instance its last read returned; reads: its reads;
\*   overlapped: history, two threads have been inside the property at once.
NotLoaded(device) ==
    [ _model |-> NoModel, device |-> device, built |-> 0, overlapped |-> FALSE,
      thr |-> [th \in Threads |-> [pc |-> "idle", got |-> NoModel, reads |-> 0]] ]

InitComponents ==
    /\ ras = NewStream
    /\ rec = AudioRecorder(FALSE, TRUE)
    /\ whisper = WhisperTranscriptionService("cuda")
    /\ llm = NoTextCalls
    /\ ffmpeg = NoExtractions
    /\ lazy_model = NotLoaded("cuda")

InitDaemon ==
    /\ _is_recording = FALSE
    /\ recording_flag = FALSE
    /\ _recording = FALSE
    /\ _streaming_task = NoTask
    /\ _stop_event = FALSE
    /\ _context_window = ""
    /\ _silence_start = NoTime
    /\ _pre_roll_buffer = <<>>
    /\ tasks = <<>>
    /\ _websocket_clients = {}
    /\ emitted = <<>>
    /\ commits = <<>>
    /\ requests = <<>>
    /\ now = 0
    /\ chunk_no = 0
    /\ ws_events = 0
    /\ file_jobs = <<>>
    /\ shutdown = NotShutDown

Init ==
    /\ InitDaemon
    /\ InitComponents

\* The daemon starts after a run that ended without its stop: the flag file of
\* that run is still on disk, and neither lifespan nor Orchestrator.__init__
\* looks at it.
InitStale ==
    /\ _is_recording = FALSE
    /\ recording_flag \in BOOLEAN
    /\ _recording = FALSE
    /\ _streaming_task = NoTask
    /\ _stop_event = FALSE
    /\ _context_window = ""
    /\ _silence_start = NoTime
    /\ _pre_roll_buffer = <<>>
    /\ tasks = <<>>
    /\ _websocket_clients = {}
    /\ emitted = <<>>
    /\ commits = <<>>
    /\ requests = <<>>
    /\ now = 0
    /\ chunk_no = 0
    /\ ws_events = 0
    /\ file_jobs = <<>>
    /\ shutdown = NotShutDown
    /\ InitComponents

\* ------------------------------------------------ StreamingTranscriber._loop
\* A task of _loop(): its position (pc) and its locals.
\*   pc: "wait"        awaiting recorder.wait_for_data()          (line 124)
\*       "prov_infer"  awaiting _infer_provisional                (line 160)
\*       "prov_emit"   awaiting emit_event of a provisional       (line 163)
\*       "final_infer" awaiting _infer_final of a silence commit  (line 184)
\*       "final_emit"  awaiting emit_event of that final          (line 188)
\*       "stop_infer"  awaiting _infer_final of the commit on stop (line 202)
\*       "stop_emit"   awaiting emit_event of that final          (line 206)
\*       "done"        returned
\*   job: the run_inference job of the task: "none", "queued", "running"
\*   bc_*: broadcast_event's iteration over _websocket_clients: the set's size
\*         when the iteration began (bc_used), the client being sent to
\*         (bc_cur), those still to visit (bc_todo), those sent to or tried
\*         (bc_att), the `disconnected` list (bc_dead), the event (bc_ev) and
\*         the clients connected when the broadcast began (bc_targets)
\*   (a chunk carries the time it was read at, `at`, as history)
\*   first_chunk: history, the number of the first chunk read after start()
\*   n_chunks, speech_seen: history, the chunks the task has read and whether
\*         one of them was classified as speech; dup_dropped: history, a
\*         provisional result of the segment was dropped because it repeated
\*         the last one; prov_asked, prov_text_seen: history, a provisional
\*         inference was submitted, and one returned a text
NewTask ==
    [ pc |-> "wait",
      all_final_text |-> <<>>,
      current_segment_audio |-> <<>>,
      segment_duration |-> 0,
      last_provisional_time |-> now,
      provisional_text |-> "",
      job |-> "none",
      prompt |-> "",
      bc_used |-> 0,
      bc_todo |-> {},
      bc_cur |-> NoClient,
      bc_dead |-> {},
      bc_att |-> {},
      bc_ev |-> 0,
      bc_targets |-> {},
      n_chunks |-> 0,
      first_chunk |-> chunk_no + 1,
      prov_asked |-> FALSE,
      prov_text_seen |-> FALSE,
      speech_seen |-> FALSE,
      dup_dropped |-> FALSE,
      result |-> "" ]

InferPcs == {"prov_infer", "final_infer", "stop_infer"}
EmitPcs == {"prov_emit", "final_emit", "stop_emit"}

TaskDone(t) == tasks[t].pc = "done"

LiveTasks == {t \in DOMAIN tasks : ~TaskDone(t)}

\* A frame is what one step of the loop works on: the task t, its locals L, the
\* context window cw, the silence start sil, the events em and the commits cm.
Frame(t) ==
    [ t |-> t, L |-> tasks[t], cw |-> _context_window, sil |-> _silence_start,
      em |-> emitted, cm |-> commits ]

\* _infer_provisional / _infer_final up to `await self.worker.run_inference`:
\* the prompt is built from the context window before the job is submitted.
Submit(F, pc) ==
    [F EXCEPT !.L.pc = pc, !.L.job = "queued",
              !.L.prompt = _build_context_prompt(F.cw)]

ReturnLast(F) ==
    [F EXCEPT !.L.pc = "done", !.L.job = "none",
              !.L.result = IF F.L.all_final_text = <<>> THEN ""
                           ELSE F.L.all_final_text[Len(F.L.all_final_text)]]

\* return " ".join(all_final_text)                                 (line 211)
Return(F) ==
    [F EXCEPT !.L.pc = "done", !.L.job = "none",
              !.L.result = JoinSpace(F.L.all_final_text)]

\* except Exception: return " ".join(all_final_text) if all_final_text else ""
Except(F) ==
    [F EXCEPT !.L.pc = "done", !.L.job = "none",
              !.L.result = IF F.L.all_final_text # <<>>
                           THEN JoinSpace(F.L.all_final_text) ELSE ""]

LoopTopWithoutStopCommit(F) ==
    IF ~_stop_event THEN [F EXCEPT !.L.pc = "wait", !.L.job = "none"]
    ELSE Return(F)

\* The `while not self._stop_event.is_set()` test and, once it fails, the final
\* commit on stop.                                          (lines 122, 199-211)
LoopTop(F) ==
    IF ~_stop_event THEN [F EXCEPT !.L.pc = "wait", !.L.job = "none"]
    ELSE IF F.L.current_segment_audio # <<>>
            /\ F.L.segment_duration > MIN_SEGMENT_DURATION
         THEN Submit(F, "stop_infer")
         ELSE Return(F)

FlushKeepingAudio(F) ==
    [F EXCEPT !.L.provisional_text = "", !.sil = NoTime]

FlushKeepingTimer(F) ==
    [F EXCEPT !.L.current_segment_audio = <<>>, !.L.segment_duration = 0,
              !.L.provisional_text = "", !.L.dup_dropped = FALSE]

\* FLUSH - Zero-Leak buffer clear                              (lines 193-197)
Flush(F) ==
    [F EXCEPT !.L.current_segment_audio = <<>>, !.L.segment_duration = 0,
              !.L.provisional_text = "", !.sil = NoTime,
              !.L.dup_dropped = FALSE]

\* What follows an emit_event that returned.
AfterEmit(F) ==
    IF F.L.pc = "prov_emit" THEN LoopTop(F)
    ELSE IF F.L.pc = "final_emit" THEN LoopTop(Flush(F))
    ELSE Return(F)

\* session_manager.emit_event -> broadcast_event(event_type, data) up to its
\* first `await ws.send_json`: with no client it returns at once, otherwise the
\* iteration over the set starts with `first`.        (api.py lines 110-120)
BeginEmit(F, text, final, pc, first) ==
    LET ev == [ task |-> F.t, text |-> text, final |-> final,
                seg |-> F.L.current_segment_audio[1].n,
                after_stop |-> _stop_event,
                dispatched |-> _websocket_clients = {},
                missed |-> {}, cleaned |-> TRUE ]
        G == [F EXCEPT !.em = Append(F.em, ev), !.L.pc = pc, !.L.job = "none"]
    IN  IF _websocket_clients = {} THEN AfterEmit(G)
        ELSE [G EXCEPT !.L.bc_used = Cardinality(_websocket_clients),
                       !.L.bc_cur = first,
                       !.L.bc_todo = _websocket_clients \ {first},
                       !.L.bc_dead = {}, !.L.bc_att = {},
                       !.L.bc_ev = Len(F.em) + 1,
                       !.L.bc_targets = _websocket_clients]

AlwaysTruthy(text) == TRUE

AnyProvisional(text, provisional_text) == text # ""

\* `if text and text != provisional_text:`                         (line 161)
IsNewProvisional(text, provisional_text) ==
    text # "" /\ text # provisional_text

\* `if final_text:` - an empty final text emits nothing     (lines 185, 203)
Truthy(text) == text # ""

\* The loop from the return of run_inference to its next await.
\*   provisional: lines 160-166; silence commit: 184-197; commit on stop: 202-211
OnInference(F, text, first) ==
    LET commit == [ task |-> F.t, seg |-> F.L.current_segment_audio[1].n,
                    last |-> F.L.current_segment_audio[
                                 Len(F.L.current_segment_audio)].n,
                    text |-> text, on_stop |-> F.L.pc = "stop_infer",
                    prompt |-> F.L.prompt, cw_len |-> Len(F.cw) ]
        C == [F EXCEPT !.cm = Append(F.cm, commit)]
        A == [C EXCEPT !.L.all_final_text = Append(F.L.all_final_text, text),
                       !.cw = _update_context_window(F.cw, text)]
    IN  IF F.L.pc = "prov_infer"
        THEN IF IsNewProvisional(text, F.L.provisional_text)
             THEN BeginEmit([F EXCEPT !.L.provisional_text = text,
                                      !.L.prov_text_seen = TRUE],
                            text, FALSE, "prov_emit", first)
             ELSE LoopTop([F EXCEPT !.L.prov_text_seen = @ \/ text # "",
                                    !.L.dup_dropped =
                                        @ \/ (text # "" /\ text = F.L.provisional_text)])
        ELSE IF F.L.pc = "final_infer"
        THEN IF Truthy(text) THEN BeginEmit(A, text, TRUE, "final_emit", first)
             ELSE LoopTop(Flush(C))
        ELSE IF Truthy(text) THEN BeginEmit(A, text, TRUE, "stop_emit", first)
             ELSE Return(C)

ProvisionalNeverDue(t_now, last_provisional_time, segment_duration) == FALSE

\* `now - last_provisional_time > PROVISIONAL_INTERVAL and segment_duration >
\* MIN_SEGMENT_DURATION`                                     (lines 155-158)
ProvisionalDue(t_now, last_provisional_time, segment_duration) ==
    /\ t_now - last_provisional_time > PROVISIONAL_INTERVAL
    /\ segment_duration > MIN_SEGMENT_DURATION

TimerNotReset(is_speech, active, sil, t_now) ==
    IF ~is_speech /\ active /\ sil = NoTime THEN t_now ELSE sil

\* self._silence_start after a chunk: None on speech (line 153), the time of
\* the tick on the first silent chunk of an active segment (lines 168-171).
SilenceTimer(is_speech, active, sil, t_now) ==
    IF is_speech THEN NoTime
    ELSE IF active /\ sil = NoTime THEN t_now
    ELSE sil

\* The loop from the return of wait_for_data to its next await, for a
\* non-empty chunk read at time t_now.                         (lines 125-197)
OnChunk(F, chunk, t_now) ==
    LET L == F.L
        pre == LET p == Append(_pre_roll_buffer, chunk)
               IN  IF Len(p) > PRE_ROLL_CHUNKS THEN Tail(p) ELSE p
        is_speech == _detect_speech_energy(chunk, _speech_threshold)
        started == is_speech /\ L.current_segment_audio = <<>>
        grows == is_speech \/ L.current_segment_audio # <<>>
        audio == IF started THEN pre
                 ELSE IF grows THEN Append(L.current_segment_audio, chunk)
                 ELSE L.current_segment_audio
        dur == IF started THEN SumMs(audio)
               ELSE IF grows THEN L.segment_duration + ChunkMs(chunk)
               ELSE L.segment_duration
        sil == SilenceTimer(is_speech, audio # <<>>, F.sil, t_now)
        G == [F EXCEPT !.L.current_segment_audio = audio,
                       !.L.segment_duration = dur, !.sil = sil,
                       !.L.n_chunks = @ + 1,
                       !.L.speech_seen = @ \/ is_speech]
    IN  IF is_speech
        THEN IF ProvisionalDue(t_now, L.last_provisional_time, dur)
             THEN Submit([G EXCEPT !.L.last_provisional_time = t_now,
                                   !.L.prov_asked = TRUE], "prov_infer")
             ELSE LoopTop(G)
        ELSE IF audio # <<>>
                /\ (t_now - sil) > _silence_commit_ms
                /\ dur > MIN_SEGMENT_DURATION
             THEN Submit(G, "final_infer")
             ELSE LoopTop(G)

PreRollKeepsAll(chunk) == Append(_pre_roll_buffer, chunk)

\* self._pre_roll_buffer.append(chunk), then pop(0) once it holds more than
\* PRE_ROLL_CHUNKS.                                          (lines 130-133)
PreRollAfter(chunk) ==
    LET p == Append(_pre_roll_buffer, chunk)
    IN  IF Len(p) > PRE_ROLL_CHUNKS THEN Tail(p) ELSE p

\* Writes a frame back.
Store(F) ==
    /\ tasks' = [tasks EXCEPT ![F.t] = F.L]
    /\ _context_window' = F.cw
    /\ _silence_start' = F.sil
    /\ emitted' = F.em
    /\ commits' = F.cm

\* await recorder.wait_for_data(); chunk = recorder.read_chunk(), a non-empty
\* chunk arriving `delta` ms after the previous one.
LoopReadChunk(t) ==
    /\ t \in DOMAIN tasks
    /\ tasks[t].pc = "wait"
    /\ chunk_no < MaxChunks
    /\ \E samples \in ChunkSamples, energy \in Energies, delta \in Deltas :
         LET chunk == [n |-> chunk_no + 1, samples |-> samples, energy |-> energy,
                       at |-> now + delta]
         IN  /\ Store(OnChunk(Frame(t), chunk, now + delta))
             /\ _pre_roll_buffer' = PreRollAfter(chunk)
             /\ now' = now + delta
             /\ chunk_no' = chunk_no + 1
    /\ UNCHANGED << _is_recording, recording_flag, _recording, _streaming_task,
                    _stop_event, _websocket_clients, requests, ws_events, file_jobs,
                    shutdown, componentVars >>

\* The same step of the loop with the finer inputs.
LoopReadChunkAt(t) ==
    /\ t \in DOMAIN tasks
    /\ tasks[t].pc = "wait"
    /\ chunk_no < MaxChunks
    /\ \E fine \in FineChunks, energy \in Energies :
         LET chunk == [n |-> chunk_no + 1, samples |-> fine.samples,
                       energy |-> energy, at |-> now + fine.delta]
         IN  /\ Store(OnChunk(Frame(t), chunk, now + fine.delta))
             /\ _pre_roll_buffer' = PreRollAfter(chunk)
             /\ now' = now + fine.delta
             /\ chunk_no' = chunk_no + 1
    /\ UNCHANGED << _is_recording, recording_flag, _recording, _streaming_task,
                    _stop_event, _websocket_clients, requests, ws_events, file_jobs,
                    shutdown, componentVars >>

\* read_chunk() returned nothing: `continue`, back to the while test. Only the
\* stop event makes this step change anything.                 (lines 127-128)
LoopReadEmpty(t) ==
    /\ t \in DOMAIN tasks
    /\ tasks[t].pc = "wait"
    /\ _stop_event
    /\ Store(LoopTop(Frame(t)))
    /\ UNCHANGED << _is_recording, recording_flag, _recording, _streaming_task,
                    _stop_event, _pre_roll_buffer, _websocket_clients, requests,
                    now, chunk_no, ws_events, file_jobs,
                    shutdown, componentVars >>

\* ------------------------------------------- PersistentWhisperWorker (spec 4.2)
\* One worker thread owns the model and runs one job at a time.
WorkerRunning == {t \in DOMAIN tasks : tasks[t].job = "running"}

WorkerStart(t) ==
    /\ t \in DOMAIN tasks
    /\ tasks[t].job = "queued"
    /\ WorkerRunning = {}
    /\ tasks' = [tasks EXCEPT ![t].job = "running"]
    /\ UNCHANGED << _is_recording, recording_flag, _recording, _streaming_task,
                    _stop_event, _context_window, _silence_start, _pre_roll_buffer,
                    _websocket_clients, emitted, commits, requests, now, chunk_no,
                    ws_events, file_jobs,
                    shutdown, componentVars >>

\* The job's future resolves (a result or an exception) and the loop resumes.
WorkerFinish(t) ==
    /\ t \in DOMAIN tasks
    /\ tasks[t].job = "running"
    /\ tasks[t].pc \in InferPcs
    /\ \E outcome \in InferenceOutcomes, first \in Clients \cup {NoClient} :
         /\ (first = NoClient) <=> (_websocket_clients = {})
         /\ first # NoClient => first \in _websocket_clients
         /\ tasks[t].pc = "prov_infer" => outcome \in ProvisionalOutcomes
         /\ Store(OnInference(Frame(t), InferText(outcome), first))
    /\ UNCHANGED << _is_recording, recording_flag, _recording, _streaming_task,
                    _stop_event, _pre_roll_buffer, _websocket_clients, requests,
                    now, chunk_no, ws_events, file_jobs,
                    shutdown, componentVars >>

\* ------------------------------------------------ DaemonState.broadcast_event
\* The broadcast of event ev ends (it returned or it raised): what it left out.
Close(F, att) ==
    [F EXCEPT !.em[F.L.bc_ev].dispatched = TRUE,
              !.em[F.L.bc_ev].missed =
                  (F.L.bc_targets \cap _websocket_clients) \ att,
              !.L.bc_cur = NoClient, !.L.bc_todo = {}, !.L.bc_att = {},
              !.L.bc_dead = {}, !.L.bc_used = 0, !.L.bc_ev = 0,
              !.L.bc_targets = {}]

EvictNone(clients, disconnected) == clients

\* for ws in disconnected: self._websocket_clients.discard(ws)  (lines 124-126)
Evict(clients, disconnected) == clients \ disconnected

\* History of a broadcast that returns: whether the set it leaves (after) is
\* the set it found without the subscribers whose send failed, with every
\* subscriber it was to reach sent to.
Cleanup(F, att, dead) ==
    LET after == Evict(_websocket_clients, dead)
    IN  [F EXCEPT !.em[F.L.bc_ev].cleaned =
                      /\ dead \cap after = {}
                      /\ after = _websocket_clients \ dead
                      /\ F.L.bc_targets \subseteq att]

\* `await ws.send_json(message)` ends (sent, or an exception that is caught),
\* then the set iterator is advanced: a set whose size changed since the
\* iteration began raises RuntimeError, which leaves broadcast_event and
\* emit_event and reaches the loop's `except Exception`.
SendDone(t) ==
    /\ t \in DOMAIN tasks
    /\ tasks[t].pc \in EmitPcs
    /\ \E ok \in BOOLEAN, nxt \in tasks[t].bc_todo \cup {NoClient} :
         LET L == tasks[t]
             cur == IF L.bc_cur = GoneClient THEN {} ELSE {L.bc_cur}
             att == L.bc_att \cup cur
             dead == IF ok THEN L.bc_dead ELSE L.bc_dead \cup cur
             changed == Cardinality(_websocket_clients) # L.bc_used
         IN  /\ (nxt = NoClient) <=> (changed \/ L.bc_todo = {})
             /\ IF changed
                THEN /\ Store(Except(Close(Frame(t), att)))
                     /\ UNCHANGED _websocket_clients
                ELSE IF L.bc_todo = {}
                THEN /\ Store(AfterEmit(Close(Cleanup(Frame(t), att, dead), att)))
                     /\ _websocket_clients' = Evict(_websocket_clients, dead)
                ELSE /\ tasks' = [tasks EXCEPT ![t].bc_cur = nxt,
                                               ![t].bc_todo = L.bc_todo \ {nxt},
                                               ![t].bc_att = att,
                                               ![t].bc_dead = dead]
                     /\ UNCHANGED << _websocket_clients, _context_window,
                                     _silence_start, emitted, commits >>
    /\ UNCHANGED << _is_recording, recording_flag, _recording, _streaming_task,
                    _stop_event, _pre_roll_buffer, requests, now, chunk_no,
                    ws_events, file_jobs,
                    shutdown, componentVars >>

\* websocket_events: accept() and _websocket_clients.add(websocket). Whether a
\* running iteration over the set reaches the new member is not defined.
Connect(c) ==
    /\ c \notin _websocket_clients
    /\ ws_events < MaxWsEvents
    /\ _websocket_clients' = _websocket_clients \cup {c}
    /\ ws_events' = ws_events + 1
    /\ \E reached \in BOOLEAN :
         tasks' = [t \in DOMAIN tasks |->
                     IF tasks[t].pc \in EmitPcs /\ reached
                     THEN [tasks[t] EXCEPT !.bc_todo = @ \cup {c}]
                     ELSE tasks[t]]
    /\ UNCHANGED << _is_recording, recording_flag, _recording, _streaming_task,
                    _stop_event, _context_window, _silence_start, _pre_roll_buffer,
                    emitted, commits, requests, now, chunk_no, file_jobs,
                    shutdown, componentVars >>

\* websocket_events: WebSocketDisconnect, then _websocket_clients.discard.
\* A broadcast under way forgets the closed connection (a later connection of
\* the same client is another WebSocket object): it is no longer one of the
\* subscribers to reach, and its failed send evicts nothing.
Disconnect(c) ==
    /\ c \in _websocket_clients
    /\ ws_events < MaxWsEvents
    /\ _websocket_clients' = _websocket_clients \ {c}
    /\ ws_events' = ws_events + 1
    /\ tasks' = [t \in DOMAIN tasks |->
                   [tasks[t] EXCEPT !.bc_todo = @ \ {c},
                                    !.bc_targets = @ \ {c},
                                    !.bc_dead = @ \ {c},
                                    !.bc_cur = IF @ = c THEN GoneClient ELSE @]]
    /\ UNCHANGED << _is_recording, recording_flag, _recording, _streaming_task,
                    _stop_event, _context_window, _silence_start, _pre_roll_buffer,
                    emitted, commits, requests, now, chunk_no, file_jobs,
                    shutdown, componentVars >>

\* ------------------------------------------------------------- Orchestrator
\* ToggleResponse, and whether the handler called clipboard.copy (copied).
Response(status, message, text_is_null, text) ==
    [status |-> status, message |-> message, text_is_null |-> text_is_null,
     text |-> text, copied |-> ~text_is_null]

Pending == Response("pending", "", TRUE, "")

\* A request: the operation it resolved to (op: /toggle is start() or stop()),
\* the state it found, the task its transcriber.stop() awaits, what
\* transcriber.stop() returned (returned, ret) and the HTTP response.
Request(op, awaiting, returned, ret, resp) ==
    [op |-> op, was_recording |-> _is_recording,
     task_was_live |-> (_streaming_task # NoTask /\ ~TaskDone(_streaming_task)),
     awaiting |-> awaiting, returned |-> returned, ret |-> ret, resp |-> resp]

\* `if self._is_recording:` of Orchestrator.start
AlwaysStart == FALSE

StartRejected == _is_recording

\* `if not self._is_recording:` of Orchestrator.stop
AlwaysStop == FALSE

StopRejected == ~_is_recording

\* `if self._streaming_task and not self._streaming_task.done():`
NeverActive == FALSE

StreamingActive == _streaming_task # NoTask /\ ~TaskDone(_streaming_task)

StopResponseUnvalidated(transcription) ==
    Response("idle", "Copiado al portapapeles", FALSE, transcription)

\* The validation of Orchestrator.stop and its two idle responses (messages
\* without their emoji and accents).
StopResponse(transcription) ==
    IF transcription = "" \/ Strip(transcription) = ""
    THEN Response("idle", "No se detecto voz", TRUE, "")
    ELSE Response("idle", "Copiado al portapapeles", FALSE, transcription)

\* POST /start, and POST /toggle while idle: Orchestrator.start, which awaits
\* only StreamingTranscriber.start and so runs without suspending.
HandleStart(kind) ==
    /\ Len(requests) < MaxRequests
    /\ shutdown.phase = "no"
    /\ kind = "toggle" => ~_is_recording
    /\ \E device_ok \in BOOLEAN :
         IF StartRejected
         THEN /\ requests' = Append(requests,
                    Request("start", NoTask, FALSE, "",
                            Response("recording", "Ya esta grabando", TRUE, "")))
              /\ UNCHANGED << _is_recording, recording_flag, _recording,
                              _streaming_task, _stop_event, _context_window,
                              _silence_start, tasks >>
         ELSE IF StreamingActive
         THEN \* "Streaming already active": start() returns at once
              /\ _is_recording' = TRUE
              /\ recording_flag' = TRUE
              /\ requests' = Append(requests,
                    Request("start", NoTask, FALSE, "",
                            Response("recording", "Grabando...", TRUE, "")))
              /\ UNCHANGED << _recording, _streaming_task, _stop_event,
                              _context_window, _silence_start, tasks >>
         ELSE IF _recording \/ ~device_ok
         THEN \* recorder.start() raises RecordingError
              /\ requests' = Append(requests,
                    Request("start", NoTask, FALSE, "",
                            Response("error", "Error", TRUE, "")))
              /\ UNCHANGED << _is_recording, recording_flag, _recording,
                              _streaming_task, _stop_event, _context_window,
                              _silence_start, tasks >>
         ELSE /\ _recording' = TRUE
              /\ _stop_event' = FALSE
              /\ _context_window' = ""
              /\ _silence_start' = NoTime
              /\ tasks' = Append(tasks, NewTask)
              /\ _streaming_task' = Len(tasks) + 1
              /\ _is_recording' = TRUE
              /\ recording_flag' = TRUE
              /\ requests' = Append(requests,
                    Request("start", NoTask, FALSE, "",
                            Response("recording", "Grabando...", TRUE, "")))
    /\ UNCHANGED << _pre_roll_buffer, _websocket_clients, emitted, commits, now,
                    chunk_no, ws_events, file_jobs,
                    shutdown, componentVars >>

\* Orchestrator.start whose config.paths.recording_flag.touch() raises OSError
\* (line 361): transcriber.start() has returned and _is_recording is set (lines
\* 357-358), then the `except Exception` answers status 'error' (lines 372-377).
HandleStartTouchFails(kind) ==
    /\ Len(requests) < MaxRequests
    /\ shutdown.phase = "no"
    /\ ~StartRejected
    /\ StreamingActive \/ ~_recording
    /\ IF StreamingActive
       THEN UNCHANGED << _recording, _streaming_task, _stop_event,
                         _context_window, _silence_start, tasks >>
       ELSE /\ _recording' = TRUE
            /\ _stop_event' = FALSE
            /\ _context_window' = ""
            /\ _silence_start' = NoTime
            /\ tasks' = Append(tasks, NewTask)
            /\ _streaming_task' = Len(tasks) + 1
    /\ _is_recording' = TRUE
    /\ requests' = Append(requests,
          Request("start", NoTask, FALSE, "",
                  Response("error", "Error", TRUE, "")))
    /\ UNCHANGED << recording_flag, _pre_roll_buffer, _websocket_clients,
                    emitted, commits, now, chunk_no, ws_events, file_jobs,
                    shutdown, componentVars >>

FinishStopLeavingRecorder(r, final_text) ==
    LET req == IF r = 0
               THEN Request("stop", _streaming_task, FALSE, "", Pending)
               ELSE requests[r]
        done == [req EXCEPT !.returned = TRUE, !.ret = final_text,
                            !.resp = StopResponse(final_text)]
    IN  /\ requests' = IF r = 0 THEN Append(requests, done)
                       ELSE [requests EXCEPT ![r] = done]
        /\ _recording' = _recording
        /\ _streaming_task' = NoTask
        /\ _is_recording' = IF r = 0 THEN FALSE ELSE _is_recording

\* StreamingTranscriber.stop from the return of `await self._streaming_task`:
\* the finally block stops the recorder (which raises when it is not
\* recording, before the task is forgotten), then Orchestrator.stop builds its
\* response; its `except` answers status "error" and clears _is_recording,
\* which the success path leaves as it finds it.
FinishStop(r, final_text) ==
    LET req == IF r = 0
               THEN Request("stop", _streaming_task, FALSE, "", Pending)
               ELSE requests[r]
        done == IF _recording
                THEN [req EXCEPT !.returned = TRUE, !.ret = final_text,
                                 !.resp = StopResponse(final_text)]
                ELSE [req EXCEPT !.resp = Response("error", "Error", TRUE, "")]
    IN  /\ requests' = IF r = 0 THEN Append(requests, done)
                       ELSE [requests EXCEPT ![r] = done]
        /\ _recording' = FALSE
        /\ _streaming_task' = IF _recording THEN NoTask ELSE _streaming_task
        /\ _is_recording' = IF r = 0 \/ ~_recording THEN FALSE ELSE _is_recording

\* Orchestrator.stop up to `await self._streaming_task` (a task that is done
\* is not waited for).
OrchestratorStop ==
    /\ IF StopRejected
       THEN /\ requests' = Append(requests,
                  Request("stop", NoTask, FALSE, "",
                          Response("idle", "No hay grabacion en curso", TRUE, "")))
            /\ UNCHANGED << _is_recording, recording_flag, _recording,
                            _streaming_task, _stop_event >>
       ELSE IF _streaming_task = NoTask
       THEN \* `if not self._streaming_task: return ""`
            /\ _is_recording' = FALSE
            /\ recording_flag' = FALSE
            /\ requests' = Append(requests,
                  Request("stop", NoTask, TRUE, "", StopResponse("")))
            /\ UNCHANGED << _recording, _streaming_task, _stop_event >>
       ELSE IF TaskDone(_streaming_task)
       THEN /\ recording_flag' = FALSE
            /\ _stop_event' = TRUE
            /\ FinishStop(0, tasks[_streaming_task].result)
       ELSE /\ _is_recording' = FALSE
            /\ recording_flag' = FALSE
            /\ _stop_event' = TRUE
            /\ requests' = Append(requests,
                  Request("stop", _streaming_task, FALSE, "", Pending))
            /\ UNCHANGED << _recording, _streaming_task >>
    /\ UNCHANGED << _context_window, _silence_start, _pre_roll_buffer, tasks,
                    _websocket_clients, emitted, commits, now, chunk_no,
                    ws_events, file_jobs, componentVars >>

\* POST /stop, and POST /toggle while recording.
HandleStop(kind) ==
    /\ Len(requests) < MaxRequests
    /\ shutdown.phase = "no"
    /\ kind = "toggle" => _is_recording
    /\ OrchestratorStop
    /\ UNCHANGED shutdown

\* Orchestrator.stop resumes once the task it awaits is done.
StopResume(r) ==
    /\ r \in DOMAIN requests
    /\ requests[r].resp = Pending
    /\ requests[r].awaiting # NoTask
    /\ TaskDone(requests[r].awaiting)
    /\ FinishStop(r, tasks[requests[r].awaiting].result)
    /\ UNCHANGED << recording_flag, _stop_event, _context_window, _silence_start,
                    _pre_roll_buffer, tasks, _websocket_clients, emitted, commits,
                    now, chunk_no, ws_events, file_jobs,
                    shutdown, componentVars >>

\* ------------------------------- FileTranscriptionService._transcribe_audio_data
\* model.transcribe (or the batched pipeline) is called on the caller's thread.
FileBegin ==
    /\ Len(file_jobs) < MaxFiles
    /\ \E duration \in FileDurations :
         file_jobs' = Append(file_jobs,
             [duration |-> duration,
              use_batched |-> duration > BATCHED_THRESHOLD_MS,
              state |-> "running"])
    /\ UNCHANGED << streamVars, shutdown, componentVars >>

FileEnd(i) ==
    /\ i \in DOMAIN file_jobs
    /\ file_jobs[i].state = "running"
    /\ file_jobs' = [file_jobs EXCEPT ![i].state = "done"]
    /\ UNCHANGED << streamVars, shutdown, componentVars >>

\* ----------------------------------------------------- Orchestrator.shutdown
\* lifespan after its yield: the server has answered its requests and calls
\* shutdown(), which stops an active recording through Orchestrator.stop.
ShutdownBegin ==
    /\ shutdown.phase = "no"
    /\ \A r \in DOMAIN requests : requests[r].resp # Pending
    /\ IF _is_recording
       THEN /\ Len(requests) < MaxRequests
            /\ OrchestratorStop
            /\ shutdown' = [shutdown EXCEPT !.phase = "stopping",
                                            !.req = Len(requests) + 1]
       ELSE /\ shutdown' = [shutdown EXCEPT !.phase = "stopping"]
            /\ UNCHANGED << streamVars, file_jobs, componentVars >>

\* The transcriber property was read (and with it the worker's), by start().
TranscriberCreated ==
    \E r \in DOMAIN requests : requests[r].op = "start" /\ ~requests[r].was_recording

\* The notifications property was read: by a start() that got past
\* transcriber.start() or by a stop() that was not rejected.
NotificationsCreated ==
    \E r \in DOMAIN requests :
        \/ /\ requests[r].op = "start" /\ ~requests[r].was_recording
           /\ requests[r].resp.status = "recording"
        \/ requests[r].op = "stop" /\ requests[r].was_recording

\* shutdown() after its stop() returned or raised (suppressed): the worker, if
\* there is one (warmup may have created it), is unloaded inside try/except,
\* then the notification service, if there is one, is shut down outside any
\* try, so its exception leaves shutdown().
ShutdownFinish ==
    /\ shutdown.phase = "stopping"
    /\ shutdown.req # 0 => requests[shutdown.req].resp # Pending
    /\ \E warmed, unload_ok, notifications_ok \in BOOLEAN :
         LET has_worker == warmed \/ TranscriberCreated
         IN  shutdown' = [shutdown EXCEPT
                 !.worker = has_worker,
                 !.unloaded = has_worker /\ unload_ok,
                 !.phase = IF NotificationsCreated /\ ~notifications_ok
                           THEN "raised" ELSE "done"]
    /\ UNCHANGED << streamVars, file_jobs, componentVars >>

FilesRunning == {i \in DOMAIN file_jobs : file_jobs[i].state = "running"}

\* ------------------------------------------------------------ specifications
Next ==
    \/ \E t \in 1..MaxRequests : LoopReadChunk(t)
    \/ \E t \in 1..MaxRequests : LoopReadEmpty(t)
    \/ \E t \in 1..MaxRequests : WorkerStart(t)
    \/ \E t \in 1..MaxRequests : WorkerFinish(t)
    \/ \E kind \in {"start", "toggle"} : HandleStart(kind)
    \/ \E kind \in {"stop", "toggle"} : HandleStop(kind)
    \/ \E r \in 1..MaxRequests : StopResume(r)

Spec == Init /\ [][Next]_vars

\* The daemon fed with short chunks at two paces, for the comparisons of the
\* loop with MIN_SEGMENT_DURATION and with the silence threshold.
NextTiming ==
    \/ \E t \in 1..MaxRequests : LoopReadChunkAt(t)
    \/ \E t \in 1..MaxRequests : LoopReadEmpty(t)
    \/ \E t \in 1..MaxRequests : WorkerStart(t)
    \/ \E t \in 1..MaxRequests : WorkerFinish(t)
    \/ \E kind \in {"start", "toggle"} : HandleStart(kind)
    \/ \E kind \in {"stop", "toggle"} : HandleStop(kind)
    \/ \E r \in 1..MaxRequests : StopResume(r)

SpecTiming == Init /\ [][NextTiming]_vars

\* recorder.wait_for_data(): completes when at least one new sample is
\* available or when the stream is stopped.
wait_for_data(new_samples) == new_samples \/ ~_recording

\* `await self.recorder.wait_for_data()` completes and the loop goes on with
\* what read_chunk() returns.                               (lines 124-128)
LoopWaitReturns(t) ==
    \E new_samples \in BOOLEAN :
        /\ wait_for_data(new_samples)
        /\ IF new_samples THEN LoopReadChunk(t) ELSE LoopReadEmpty(t)

\* The daemon with its scheduling: the worker thread runs a queued job and
\* ends a running one, the event loop resumes a stop whose task is done and a
\* loop whose wait_for_data completed because the stream was stopped. Nothing
\* obliges the recorder to deliver audio.
NextLive ==
    \/ \E t \in 1..MaxRequests : LoopWaitReturns(t)
    \/ \E t \in 1..MaxRequests : WorkerStart(t)
    \/ \E t \in 1..MaxRequests : WorkerFinish(t)
    \/ \E kind \in {"start", "toggle"} : HandleStart(kind)
    \/ \E kind \in {"stop", "toggle"} : HandleStop(kind)
    \/ \E r \in 1..MaxRequests : StopResume(r)

Fairness ==
    /\ \A t \in 1..MaxRequests : WF_vars(WorkerStart(t))
    /\ \A t \in 1..MaxRequests : WF_vars(WorkerFinish(t))
    /\ \A t \in 1..MaxRequests : WF_vars(LoopWaitReturns(t) /\ ~_recording)
    /\ \A r \in 1..MaxRequests : WF_vars(StopResume(r))

SpecLive == Init /\ [][NextLive]_vars /\ Fairness

\* The daemon with a recording flag whose directory may be unwritable.
NextFlag ==
    \/ Next
    \/ \E kind \in {"start", "toggle"} : HandleStartTouchFails(kind)

SpecFlag == Init /\ [][NextFlag]_vars

\* The daemon with WebSocket subscribers coming and going.
NextWs ==
    \/ Next
    \/ \E t \in 1..MaxRequests : SendDone(t)
    \/ \E c \in Clients : Connect(c)
    \/ \E c \in Clients : Disconnect(c)

SpecWs == Init /\ [][NextWs]_vars

NextFile ==
    \/ Next
    \/ FileBegin
    \/ \E i \in 1..MaxFiles : FileEnd(i)

SpecFile == Init /\ [][NextFile]_vars

\* The daemon from its startup, with whatever flag file the last run left, to
\* its shutdown.
NextLifecycle ==
    \/ Next
    \/ ShutdownBegin
    \/ ShutdownFinish

SpecLifecycle == InitStale /\ [][NextLifecycle]_vars

\* ---------------------------------------------------------------------------
\* RustAudioStream.__aiter__: re-chunking of the recorder's reads for the VAD.

\* np.concatenate(buffer_list)
RECURSIVE Concat(_)
Concat(arrays) ==
    IF arrays = <<>> THEN <<>>
    ELSE Head(arrays) \o Concat(Tail(arrays))

\* full_buffer[a:b]
Slice(array, a, b) ==
    SubSeq(array, a + 1, IF b < Len(array) THEN b ELSE Len(array))

RemainderDropped(full_buffer, start_idx) == <<>>

\* remainder = full_buffer[start_idx:]
Remainder(full_buffer, start_idx) ==
    Slice(full_buffer, start_idx, Len(full_buffer))

\* The `while start_idx + CHUNK_SIZE <= len(full_buffer)` loop from its test:
\* suspend at the yield of the next chunk, or keep the remainder and go back
\* to waiting for data.
Drain(R) ==
    IF R.start_idx + CHUNK_SIZE <= Len(R.full_buffer)
    THEN [R EXCEPT !.pc = "yield",
                   !.yielded = Append(@, Slice(R.full_buffer, R.start_idx,
                                               R.start_idx + CHUNK_SIZE))]
    ELSE LET remainder == Remainder(R.full_buffer, R.start_idx)
         IN  [R EXCEPT !.pc = "wait",
                       !.buffer_list = IF Len(remainder) > 0
                                       THEN << remainder >> ELSE <<>>,
                       !.buffer_len = Len(remainder),
                       !.full_buffer = <<>>,
                       !.start_idx = 0]

\* await wait_for_data(); chunk = read_chunk() with n samples, the next n the
\* device captured; through the first yield or the end of the iteration.
RasRead(n) ==
    /\ ras.pc = "wait"
    /\ ras.n_reads < MaxReads
    /\ LET first == Len(ras.reads)
           chunk == [i \in 1..n |-> first + i]
           R0 == [ras EXCEPT !.n_reads = @ + 1, !.reads = @ \o chunk]
       IN  IF Len(chunk) > 0
           THEN LET R1 == [R0 EXCEPT !.buffer_list = Append(@, chunk),
                                     !.buffer_len = @ + Len(chunk)]
                IN  IF R1.buffer_len >= CHUNK_SIZE
                    THEN ras' = Drain([R1 EXCEPT
                                          !.full_buffer = Concat(R1.buffer_list),
                                          !.start_idx = 0])
                    ELSE ras' = R1
           ELSE ras' = R0
    /\ UNCHANGED exceptRas

\* The consumer asks for the next item: start_idx += CHUNK_SIZE and the loop
\* test again.
RasResume ==
    /\ ras.pc = "yield"
    /\ ras' = Drain([ras EXCEPT !.start_idx = @ + CHUNK_SIZE])
    /\ UNCHANGED exceptRas

\* wait_for_data() raises, or the consumer closes the generator at a yield:
\* the finally clause stops the recorder and the iteration is over.
RasEnd ==
    /\ ras.pc \in {"wait", "yield"}
    /\ ras' = [ras EXCEPT !.pc = "done"]
    /\ UNCHANGED exceptRas

NextRas ==
    \/ \E n \in ReadSizes : RasRead(n)
    \/ RasResume
    \/ RasEnd

SpecRas == Init /\ [][NextRas]_vars

\* ------------------------------------------------------------- properties
\* The texts of the final=true events of task t, in emission order.
FinalTexts(t) ==
    LET fs == SelectSeq(emitted, LAMBDA e : e.task = t /\ e.final)
    IN  [i \in 1..Len(fs) |-> fs[i].text]

\* The requests whose StreamingTranscriber.stop() awaited a session and returned.
StopReturns ==
    {r \in DOMAIN requests : /\ requests[r].op = "stop"
                             /\ requests[r].returned
                             /\ requests[r].awaiting # NoTask}

\* The text field of a response, null read as the empty text.
ResponseText(resp) == IF resp.text_is_null THEN "" ELSE resp.text

\* C1 (as the code has it): the text StreamingTranscriber.stop() returns for a
\* session is the texts of the session's final=true events, in emission order,
\* joined by single spaces; the idle response of the /stop or stopping /toggle
\* carries that text in its text field, except that a text that is empty or
\* only whitespace is answered with a null text field.
C1_StopTextIsJoinedFinals ==
    \A r \in StopReturns :
        LET q == requests[r]
            joined == JoinSpace(FinalTexts(q.awaiting))
        IN  /\ q.ret = joined
            /\ q.resp.status = "idle"
            /\ q.resp.text_is_null <=> (Strip(joined) = "")
            /\ ~q.resp.text_is_null => q.resp.text = joined

\* C1 as stated: the response's text field equals the joined final texts as
\* well (a null field counted as the empty text).
C1_ResponseTextIsJoinedFinals ==
    \A r \in StopReturns :
        LET q == requests[r]
            joined == JoinSpace(FinalTexts(q.awaiting))
        IN  /\ q.ret = joined
            /\ ResponseText(q.resp) = joined

\* A stop answered with the text of a session that emitted two finals.
C1_Witness ==
    \E r \in StopReturns :
        /\ Len(FinalTexts(requests[r].awaiting)) = 2
        /\ ~requests[r].resp.text_is_null
        /\ requests[r].resp.text = JoinSpace(FinalTexts(requests[r].awaiting))

\* The final=true events of task t.
FinalEventsOf(t) == SelectSeq(emitted, LAMBDA e : e.task = t /\ e.final)

\* The segments task t committed (on silence or on stop).
CommitsOf(t) == SelectSeq(commits, LAMBDA c : c.task = t)

Logged(op) ==
    /\ Len(requests') = Len(requests) + 1
    /\ requests'[Len(requests')].op = op

\* C3: at most one _loop task is live, and a StreamingTranscriber.start() that
\* finds a live loop (Orchestrator.start let it through) starts no recorder,
\* leaves the context window, the stop event and the tasks alone, and the
\* request is answered 'recording'.
C3_SingleLoopTask ==
    /\ [](Cardinality(LiveTasks) <= 1)
    /\ [][ (/\ Logged("start")
            /\ ~requests'[Len(requests')].was_recording
            /\ requests'[Len(requests')].task_was_live)
           => /\ UNCHANGED << _recording, _context_window, _stop_event,
                              _silence_start, _streaming_task, tasks >>
              /\ requests'[Len(requests')].resp.status = "recording" ]_vars

\* A start that reached StreamingTranscriber.start() while the loop was live.
C3_Witness ==
    \E r \in DOMAIN requests :
        /\ requests[r].op = "start"
        /\ ~requests[r].was_recording
        /\ requests[r].task_was_live
        /\ Cardinality(LiveTasks) = 1

\* Everything but the request log.
programState ==
    << _is_recording, recording_flag, _recording, _streaming_task, _stop_event,
       _context_window, _silence_start, _pre_roll_buffer, tasks,
       _websocket_clients, emitted, commits, now, chunk_no, ws_events, file_jobs,
       shutdown, componentVars >>

\* C4: Orchestrator.start() while _is_recording changes no state and answers
\* 'recording' with the warning "Ya esta grabando"; Orchestrator.stop() while
\* not _is_recording changes no state and answers 'idle'.
C4_RejectedRequestChangesNothing ==
    [][ /\ (Logged("start") /\ requests'[Len(requests')].was_recording)
            => /\ UNCHANGED programState
               /\ requests'[Len(requests')].resp.status = "recording"
               /\ requests'[Len(requests')].resp.message = "Ya esta grabando"
        /\ (Logged("stop") /\ ~requests'[Len(requests')].was_recording)
            => /\ UNCHANGED programState
               /\ requests'[Len(requests')].resp.status = "idle" ]_vars

\* Both cases happened: a start while recording and a stop while idle.
C4_Witness ==
    /\ \E r \in DOMAIN requests :
           requests[r].op = "start" /\ requests[r].was_recording
    /\ \E r \in DOMAIN requests :
           requests[r].op = "stop" /\ ~requests[r].was_recording

\* C5: when a /stop or stopping /toggle is answered, every transcription_update
\* of the session it awaited has been through broadcast_event, and no subscriber
\* that stayed connected during the broadcast was left without it.
C5_ResponseAfterEverySend ==
    \A r \in DOMAIN requests :
        (/\ requests[r].op = "stop"
         /\ requests[r].awaiting # NoTask
         /\ requests[r].resp # Pending)
        => \A i \in DOMAIN emitted :
               emitted[i].task = requests[r].awaiting
               => emitted[i].dispatched /\ emitted[i].missed = {}

\* C6: the context window never exceeds CONTEXT_WINDOW_CHARS characters, and the
\* initial prompt of every inference in flight, and of every final inference
\* made, is at most CONTEXT_WINDOW_CHARS characters and no longer than the
\* context window it was built from.
C6_ContextWindowBounded ==
    /\ Len(_context_window) <= CONTEXT_WINDOW_CHARS
    /\ \A t \in DOMAIN tasks :
           tasks[t].pc \in InferPcs
           => /\ Len(tasks[t].prompt) <= CONTEXT_WINDOW_CHARS
              /\ Len(tasks[t].prompt) <= Len(_context_window)
    /\ \A j \in DOMAIN commits :
           /\ Len(commits[j].prompt) <= CONTEXT_WINDOW_CHARS
           /\ Len(commits[j].prompt) <= commits[j].cw_len
           /\ commits[j].cw_len <= CONTEXT_WINDOW_CHARS

\* An inference in flight whose prompt is a full window, after a commit whose
\* text alone is longer than the window.
C6_Witness ==
    \E t \in DOMAIN tasks :
        /\ tasks[t].pc \in InferPcs
        /\ Len(tasks[t].prompt) = CONTEXT_WINDOW_CHARS
        /\ Len(_context_window) = CONTEXT_WINDOW_CHARS
        /\ \E j \in DOMAIN commits :
               commits[j].task = t /\ Len(commits[j].text) > CONTEXT_WINDOW_CHARS

\* C7: the final events of a session come in the order its segments were
\* committed (a segment is named by its first chunk), and no provisional event
\* of a segment is emitted after that segment's final event.
C7_FinalsInCommitOrder ==
    /\ \A t \in DOMAIN tasks :
           LET fs == FinalEventsOf(t)
               cs == SelectSeq(CommitsOf(t), LAMBDA c : c.text # "")
           IN  /\ [i \in 1..Len(fs) |-> fs[i].seg] = [i \in 1..Len(cs) |-> cs[i].seg]
               /\ \A i, j \in 1..Len(fs) : i < j => fs[i].seg < fs[j].seg
    /\ \A i, j \in DOMAIN emitted :
           (i < j /\ emitted[i].final /\ ~emitted[j].final)
           => ~(emitted[j].task = emitted[i].task /\ emitted[j].seg = emitted[i].seg)

\* A session that emitted two finals and, after the first, a provisional of
\* the second segment.
C7_Witness ==
    \E i, j, k \in DOMAIN emitted :
        /\ i < j /\ j < k
        /\ emitted[i].final /\ ~emitted[j].final /\ emitted[k].final
        /\ emitted[i].task = emitted[j].task /\ emitted[j].task = emitted[k].task
        /\ emitted[j].seg = emitted[k].seg

\* C8: no provisional (final=false) event is emitted once stop has been
\* requested.
C8_NoProvisionalAfterStop ==
    \A i \in DOMAIN emitted : emitted[i].after_stop => emitted[i].final

\* C9: the streaming loop ends only because stop was requested: a task that is
\* done while it is still the transcriber's task found the stop event set.
C9_LoopEndsOnlyOnStop ==
    (_streaming_task # NoTask /\ TaskDone(_streaming_task)) => _stop_event

\* C10: at most one recognizer inference executes at a time, streaming jobs of
\* the worker and file transcriptions counted together.
C10_OneInferenceAtATime ==
    Cardinality(WorkerRunning) + Cardinality(FilesRunning) <= 1

\* The events of task t, in emission order.
EventsOf(t) == SelectSeq(emitted, LAMBDA e : e.task = t)

CommitEnds(t) ==
    /\ t \in DOMAIN tasks
    /\ tasks[t].pc \in {"final_infer", "final_emit"}
    /\ tasks'[t].pc = "wait"

\* C12: when a silence commit ends, whether its final inference gave a text,
\* nothing or an error, the segment buffer is empty, the segment duration is
\* zero, the silence timer is cleared and no provisional text is kept, before
\* the loop reads another chunk.
C12_CommitFlushes ==
    [][ \A t \in 1..MaxRequests :
            CommitEnds(t)
            => /\ tasks'[t].current_segment_audio = <<>>
               /\ tasks'[t].segment_duration = 0
               /\ tasks'[t].provisional_text = ""
               /\ _silence_start' = NoTime
               /\ \E j \in DOMAIN commits' :
                      commits'[j].task = t /\ ~commits'[j].on_stop ]_vars

\* The loop is back at wait_for_data with an empty segment after a commit whose
\* final inference gave nothing.
C12_Witness ==
    \E t \in DOMAIN tasks :
        /\ tasks[t].pc = "wait"
        /\ tasks[t].current_segment_audio = <<>>
        /\ _silence_start = NoTime
        /\ CommitsOf(t) # <<>>
        /\ CommitsOf(t)[Len(CommitsOf(t))].text = ""
        /\ tasks[t].n_chunks = CommitsOf(t)[Len(CommitsOf(t))].seg + 2

\* A final inference returned in this step: a segment was committed.
Committed == Len(commits') = Len(commits) + 1

\* C13: a commit whose final inference gave no text (an empty result or an
\* error) leaves the context window as it was; a commit with a text leaves the
\* last CONTEXT_WINDOW_CHARS characters of the old window, a space and the
\* stripped text (and the old window when the text is only whitespace).
C13_ContextWindowOnCommit ==
    [][ Committed
        => LET c == commits'[Len(commits')]
               appended == _context_window \o " " \o Strip(c.text)
           IN  /\ c.cw_len = Len(_context_window)
               /\ Strip(c.text) = "" => _context_window' = _context_window
               /\ Strip(c.text) # ""
                  => /\ _context_window' =
                            SubSeq(appended,
                                   Len(appended) - Len(_context_window') + 1,
                                   Len(appended))
                     /\ Len(_context_window') =
                            IF Len(appended) > CONTEXT_WINDOW_CHARS
                            THEN CONTEXT_WINDOW_CHARS ELSE Len(appended) ]_vars

\* A commit that gave no text was made with a context window that was not
\* empty, and the window is still there.
C13_Witness ==
    \E j \in DOMAIN commits :
        /\ commits[j].text = ""
        /\ commits[j].cw_len > 0
        /\ j = Len(commits)
        /\ Len(_context_window) = commits[j].cw_len

\* The commits on stop of task t.
StopCommitsOf(t) == SelectSeq(CommitsOf(t), LAMBDA c : c.on_stop)

\* C14: a loop that has returned after stop was requested submitted exactly one
\* final inference on stop when it held a segment of at least
\* MIN_SEGMENT_DURATION of audio, and none otherwise.
C14_StopCommitsSegmentOfMinLength ==
    \A t \in DOMAIN tasks :
        (TaskDone(t) /\ _stop_event)
        => LET L == tasks[t]
               active == /\ L.current_segment_audio # <<>>
                         /\ L.segment_duration >= MIN_SEGMENT_DURATION
           IN  Len(StopCommitsOf(t)) = IF active THEN 1 ELSE 0

\* The same with a segment of more than MIN_SEGMENT_DURATION, as line 200 tests.
StopCommitsLongerSegment ==
    \A t \in DOMAIN tasks :
        (TaskDone(t) /\ _stop_event)
        => LET L == tasks[t]
               active == /\ L.current_segment_audio # <<>>
                         /\ L.segment_duration > MIN_SEGMENT_DURATION
           IN  Len(StopCommitsOf(t)) = IF active THEN 1 ELSE 0

\* The text s contains the text sub.
Contains(s, sub) ==
    \E i \in 1..(Len(s) - Len(sub) + 1) : SubSeq(s, i, i + Len(sub) - 1) = sub

\* The answered stop requests that waited for (or found) session t.
StopsOf(t) ==
    {r \in DOMAIN requests : /\ requests[r].op = "stop"
                             /\ requests[r].awaiting = t
                             /\ requests[r].resp # Pending}

\* No inference was submitted and nothing was emitted for session t.
NothingInferred(t) ==
    /\ tasks[t].pc \notin (InferPcs \cup EmitPcs)
    /\ tasks[t].job = "none"
    /\ EventsOf(t) = <<>>
    /\ CommitsOf(t) = <<>>

C16_FlagIffRecording ==
    recording_flag <=> _is_recording

\* C17: Orchestrator.shutdown() does not raise, and once it has returned
\* _is_recording is false, the model has been released and no event subscriber
\* is left.
C17_ShutdownSwallowsFailures ==
    /\ shutdown.phase # "raised"
    /\ shutdown.phase = "done"
       => /\ ~_is_recording
          /\ shutdown.worker => shutdown.unloaded
          /\ _websocket_clients = {}

\* C18: when broadcast_event returns, every subscriber whose send failed is out
\* of the subscriber set, the broadcast has removed nobody else (a subscriber
\* whose send succeeded stays, unless it has disconnected by itself), and every
\* subscriber that was present when the broadcast began and has not
\* disconnected since was sent the message.
C18_BroadcastEvictsFailed ==
    \A i \in DOMAIN emitted : emitted[i].dispatched => emitted[i].cleaned

\* A broadcast to the two subscribers that had connected has returned: it has
\* evicted one of them (nobody disconnected) and the other is still subscribed.
C18_Witness ==
    \E i \in DOMAIN emitted :
        /\ emitted[i].dispatched
        /\ emitted[i].cleaned
        /\ emitted[i].missed = {}
        /\ Cardinality(_websocket_clients) = 1
        /\ ws_events = 2

\* The stops of session t whose StreamingTranscriber.stop() returned.
ReturnedStopsOf(t) == {r \in StopReturns : requests[r].awaiting = t}

\* A stop() is answered in this step: request r gets its response.
Answered(r) ==
    /\ r \in DOMAIN requests'
    /\ requests'[r].op = "stop"
    /\ requests'[r].resp # Pending
    /\ r \in DOMAIN requests => requests[r].resp = Pending

CommitTexts(t) == [j \in 1..Len(CommitsOf(t)) |-> CommitsOf(t)[j].text]

\* Every final inference of session t returned a text.
EveryCommitHasText(t) ==
    \A j \in 1..Len(CommitsOf(t)) : Strip(CommitsOf(t)[j].text) # ""

ProvisionalsBeforeStop(t) ==
    SelectSeq(emitted, LAMBDA e : e.task = t /\ ~e.final /\ ~e.after_stop)

\* Task t reads a chunk in this step.
ReadsChunk(t) ==
    /\ t \in DOMAIN tasks
    /\ tasks'[t].n_chunks = tasks[t].n_chunks + 1

\* The chunk task t has just read was classified as speech.
LastChunkIsSpeech(t) ==
    LET audio == tasks'[t].current_segment_audio
    IN  /\ audio # <<>>
        /\ audio[Len(audio)].n = chunk_no'
        /\ _detect_speech_energy(audio[Len(audio)], _speech_threshold)

InitRecorder ==
    /\ InitDaemon
    /\ ras = NewStream
    /\ whisper = WhisperTranscriptionService("cuda")
    /\ llm = NoTextCalls
    /\ ffmpeg = NoExtractions
    /\ lazy_model = NotLoaded("cuda")
    /\ \E has_rust, has_sd \in BOOLEAN : rec = AudioRecorder(has_rust, has_sd)

StartFailedStillRecording(R, why) ==
    [R EXCEPT !.start_log = Append(@, why)]

\* The failure paths of start(): _recording = False, the stream closed, raise
\* RecordingError.
StartFailed(R, why) ==
    [R EXCEPT !._recording = FALSE, !._stream = FALSE,
              !.start_log = Append(@, why)]

\* start(), where the Rust engine does or does not start (rust_ok) and
\* sd.InputStream opens or raises (device_ok).
RecStart(rust_ok, device_ok) ==
    /\ rec.stop_pc = "idle"
    /\ Len(rec.start_log) < MaxStarts
    /\ IF rec._recording
       THEN rec' = [rec EXCEPT !.start_log = Append(@, "already")]
       ELSE LET R0 == [rec EXCEPT !._recording = TRUE]
            IN  IF R0._rust_recorder /\ rust_ok
                THEN rec' = [R0 EXCEPT !.engine = "rust",
                                       !.delivered = <<>>, !.accepted = <<>>,
                                       !.start_log = Append(@, "ok")]
                ELSE LET R1 == [R0 EXCEPT !._rust_recorder = FALSE]
                     IN  IF ~R1.HAS_SOUNDDEVICE
                         THEN rec' = StartFailed(R1, "unavailable")
                         ELSE LET R2 == [R1 EXCEPT
                                          !._buffer = IF @ = NoBuffer
                                                      THEN _allocate_buffer
                                                      ELSE @,
                                          !._write_pos = 0]
                              IN  IF device_ok
                                  THEN rec' = [R2 EXCEPT
                                          !._stream = TRUE,
                                          !.engine = "python",
                                          !.delivered = <<>>,
                                          !.accepted = <<>>,
                                          !.start_log = Append(@, "ok")]
                                  ELSE rec' = StartFailed(R2, "unavailable")
    /\ UNCHANGED exceptRec

\* PortAudio calls callback(indata, frames, ...) with the next `frames` samples
\* and the callback enters `with self._lock`.
RecCallbackEnter(frames) ==
    /\ rec._stream
    /\ rec.cb_pc = "idle"
    /\ rec.n_callbacks < MaxCallbacks
    /\ LET indata == [i \in 1..frames |-> rec.n_captured + i]
       IN  rec' = [rec EXCEPT !.cb_pc = "locked", !.indata = indata,
                              !.n_captured = @ + frames,
                              !.n_callbacks = @ + 1,
                              !.delivered = @ \o indata]
    /\ UNCHANGED exceptRec

NeverReturnsEarly(R) == FALSE

\* if not self._recording or self._buffer is None: return
CallbackReturnsEarly(R) == ~R._recording \/ R._buffer = NoBuffer

RecCallbackCheck ==
    /\ rec.cb_pc = "locked"
    /\ IF CallbackReturnsEarly(rec)
       THEN rec' = [rec EXCEPT !.cb_pc = "idle", !.indata = <<>>]
       ELSE rec' = [rec EXCEPT !.cb_pc = "write", !.accepted = @ \o rec.indata]
    /\ UNCHANGED exceptRec

AllFrames(frames, write_pos) == frames

\* samples_to_write = min(frames, self.max_samples - self._write_pos)
samples_to_write(frames, write_pos) ==
    IF frames < max_samples - write_pos THEN frames
    ELSE max_samples - write_pos

\* The slice assignment and the release of the lock.
RecCallbackWrite ==
    /\ rec.cb_pc = "write"
    /\ LET n == samples_to_write(Len(rec.indata), rec._write_pos)
           end_pos == rec._write_pos + n
       IN  IF n > 0
           THEN rec' = [rec EXCEPT
                   !._buffer = [i \in DOMAIN rec._buffer |->
                                  IF rec._write_pos < i /\ i <= end_pos
                                  THEN rec.indata[i - rec._write_pos]
                                  ELSE rec._buffer[i]],
                   !._write_pos = end_pos,
                   !.cb_pc = "idle", !.indata = <<>>]
           ELSE rec' = [rec EXCEPT !.cb_pc = "idle", !.indata = <<>>]
    /\ UNCHANGED exceptRec

\* stop() up to `with self._lock`; with the Rust engine, all of it
\* (rust_ok: whether _rust_recorder.stop() returns).
RecStopBegin(rust_ok) ==
    /\ rec.stop_pc = "idle"
    /\ Len(rec.stop_log) < MaxStarts
    /\ IF ~rec._recording
       THEN rec' = [rec EXCEPT !.stop_log = Append(@, "not recording")]
       ELSE LET R0 == [rec EXCEPT !._recording = FALSE]
            IN  IF R0._rust_recorder
                THEN rec' = [R0 EXCEPT
                               !.stop_log = Append(@, IF rust_ok THEN "rust"
                                                      ELSE "error"),
                               !.returned = <<>>]
                ELSE IF ~R0.HAS_SOUNDDEVICE
                THEN rec' = [R0 EXCEPT !.stop_log = Append(@, "empty"),
                                       !.returned = <<>>]
                ELSE rec' = [R0 EXCEPT !.stop_pc = "lock"]
    /\ UNCHANGED exceptRec

\* with self._lock: recorded_samples = self._write_pos
RecStopCount ==
    /\ rec.stop_pc = "lock"
    /\ rec.cb_pc = "idle"
    /\ rec' = [rec EXCEPT !.stop_pc = "counted",
                          !.recorded_samples = rec._write_pos]
    /\ UNCHANGED exceptRec

\* _get_audio_slice(num_samples).copy()
_get_audio_slice(R, num_samples) ==
    IF R._buffer = NoBuffer THEN <<>>
    ELSE SubSeq(R._buffer, 1, num_samples)

\* The rest of stop(): the stream is stopped (which waits for a running
\* callback) and closed, the recorded part of the buffer is returned.
RecStopClose ==
    /\ rec.stop_pc = "counted"
    /\ rec.cb_pc = "idle"
    /\ rec' = [rec EXCEPT
                 !._stream = FALSE,
                 !.stop_pc = "idle",
                 !.stop_log = Append(@, "python"),
                 !.returned = IF rec.recorded_samples = 0 THEN <<>>
                              ELSE _get_audio_slice(rec, rec.recorded_samples)]
    /\ UNCHANGED exceptRec

NextRecorder ==
    \/ \E rust_ok, device_ok \in BOOLEAN : RecStart(rust_ok, device_ok)
    \/ \E frames \in FrameSizes : RecCallbackEnter(frames)
    \/ RecCallbackCheck
    \/ RecCallbackWrite
    \/ \E rust_ok \in BOOLEAN : RecStopBegin(rust_ok)
    \/ RecStopCount
    \/ RecStopClose

SpecRecorder == InitRecorder /\ [][NextRecorder]_vars

\* ---------------------------------------------------------------------------
\* WhisperTranscriptionService: the lazily loaded model and the jobs that use it.

InitWhisper ==
    /\ InitDaemon
    /\ ras = NewStream
    /\ rec = AudioRecorder(FALSE, TRUE)
    /\ llm = NoTextCalls
    /\ ffmpeg = NoExtractions
    /\ lazy_model = NotLoaded("cuda")
    /\ \E device \in {"cuda", "cpu"} :
          whisper = WhisperTranscriptionService(device)

\* A job ends: its record is appended to the history.
JobEnds(W, result) ==
    [W EXCEPT !.pc = "idle", !.loads = 0,
              !.jobs = Append(@, [loads |-> W.loads, result |-> result])]

\* stop_and_transcribe() up to `self.model`: a recording without samples raises
\* RecordingError and a recording the Rust VAD empties returns "" before the
\* model is asked for; otherwise the property loads the model when _model is
\* None.
WhisperJobBegin(audio) ==
    /\ whisper.pc = "idle"
    /\ Len(whisper.jobs) < MaxJobs
    /\ whisper' = IF audio = "empty" THEN JobEnds(whisper, "RecordingError")
                  ELSE IF audio = "no speech" THEN JobEnds(whisper, "")
                  ELSE IF whisper._model = "None"
                  THEN [whisper EXCEPT !.pc = "load"]
                  ELSE [whisper EXCEPT !.pc = "transcribe"]
    /\ UNCHANGED exceptWhisper

\* WhisperModel(model, device=whisper_config.device, ...) returns (ok) or
\* raises.
WhisperLoad(ok) ==
    /\ whisper.pc = "load"
    /\ LET W == [whisper EXCEPT !.loads = @ + 1]
       IN  whisper' = IF ok
                      THEN [W EXCEPT !._model = W.device, !.pc = "transcribe"]
                      ELSE IF W.device = "cuda"
                      THEN [W EXCEPT !.pc = "fallback"]
                      ELSE JobEnds(W, "load error")
    /\ UNCHANGED exceptWhisper

\* WhisperModel(model, device="cpu", compute_type="int8", ...) returns (ok) or
\* raises.
WhisperLoadFallback(ok) ==
    /\ whisper.pc = "fallback"
    /\ LET W == [whisper EXCEPT !.loads = @ + 1]
       IN  whisper' = IF ok
                      THEN [W EXCEPT !._model = "cpu int8", !.pc = "transcribe"]
                      ELSE JobEnds(W, "load error")
    /\ UNCHANGED exceptWhisper

\* self.model.transcribe(...) returns its segments (ok) or raises.
WhisperTranscribe(ok) ==
    /\ whisper.pc = "transcribe"
    /\ whisper' = JobEnds(whisper, IF ok THEN "text" ELSE "transcribe error")
    /\ UNCHANGED exceptWhisper

NextWhisper ==
    \/ \E audio \in {"empty", "no speech", "speech"} : WhisperJobBegin(audio)
    \/ \E ok \in BOOLEAN : WhisperLoad(ok)
    \/ \E ok \in BOOLEAN : WhisperLoadFallback(ok)
    \/ \E ok \in BOOLEAN : WhisperTranscribe(ok)

SpecWhisper == InitWhisper /\ [][NextWhisper]_vars

\* ---------------------------------------------------------------------------
\* WhisperTranscriptionService.model read by the warmup thread and by the ML
\* executor's thread. The property holds no lock.

InitLazyModel ==
    /\ InitDaemon
    /\ ras = NewStream
    /\ rec = AudioRecorder(FALSE, TRUE)
    /\ whisper = WhisperTranscriptionService("cuda")
    /\ llm = NoTextCalls
    /\ ffmpeg = NoExtractions
    /\ \E device \in {"cuda", "cpu"} : lazy_model = NotLoaded(device)

InProperty(M, th) == M.thr[th].pc \in {"load", "fallback", "loaded"}

\* How many reads a thread makes: the warmup runs once, the ML executor one
\* read for each job.
ReadsOf(th) == IF th = "warmup" THEN 1 ELSE MaxJobs

\* A thread reads the property: with a model held it returns it, without one
\* it goes on to construct one.                            (lines 69-74, 100)
ModelRead(th) ==
    /\ lazy_model.thr[th].pc \in {"idle", "returned", "raised"}
    /\ lazy_model.thr[th].reads < ReadsOf(th)
    /\ LET M == [lazy_model EXCEPT !.thr[th].reads = @ + 1]
       IN  lazy_model' =
             IF lazy_model._model = NoModel
             THEN [M EXCEPT !.thr[th].pc = "load",
                            !.overlapped =
                                @ \/ \E other \in Threads \ {th} :
                                        InProperty(lazy_model, other)]
             ELSE [M EXCEPT !.thr[th].pc = "returned",
                            !.thr[th].got = lazy_model._model]
    /\ UNCHANGED exceptLazyModel

\* The instance constructed is assigned to self._model.       (lines 74, 87)
Assign(M, th) ==
    [M EXCEPT !._model = M.built + 1, !.built = @ + 1, !.thr[th].pc = "loaded"]

\* WhisperModel(..., device=whisper_config.device, ...) returns or raises.
ModelLoad(th, ok) ==
    /\ lazy_model.thr[th].pc = "load"
    /\ lazy_model' =
          IF ok THEN Assign(lazy_model, th)
          ELSE IF lazy_model.device = "cuda"
          THEN [lazy_model EXCEPT !.thr[th].pc = "fallback"]
          ELSE [lazy_model EXCEPT !.thr[th].pc = "raised"]
    /\ UNCHANGED exceptLazyModel

\* WhisperModel(..., device="cpu", compute_type="int8", ...) returns or raises.
ModelLoadFallback(th, ok) ==
    /\ lazy_model.thr[th].pc = "fallback"
    /\ lazy_model' =
          IF ok THEN Assign(lazy_model, th)
          ELSE [lazy_model EXCEPT !.thr[th].pc = "raised"]
    /\ UNCHANGED exceptLazyModel

\* `return self._model`                                            (line 100)
ModelReturn(th) ==
    /\ lazy_model.thr[th].pc = "loaded"
    /\ lazy_model' = [lazy_model EXCEPT !.thr[th].pc = "returned",
                                        !.thr[th].got = lazy_model._model]
    /\ UNCHANGED exceptLazyModel

NextLazyModel ==
    \/ \E th \in Threads : ModelRead(th)
    \/ \E th \in Threads, ok \in BOOLEAN : ModelLoad(th, ok)
    \/ \E th \in Threads, ok \in BOOLEAN : ModelLoadFallback(th, ok)
    \/ \E th \in Threads : ModelReturn(th)

SpecLazyModel == InitLazyModel /\ [][NextLazyModel]_vars

\* ---------------------------------------------------------------------------
\* Orchestrator.process_text / translate_text and the command handlers
\* ProcessTextHandler / TranslateTextHandler.

\* A target language is a sequence of characters, one per class: "a" an ASCII
\* letter, " " the space, "-" the hyphen, "TAB" and "LF" white space other than
\* the space, "1" anything else.
Letters(n) == [i \in 1..n |-> "a"]

LangTails ==
    { <<>>, << "a" >>, << " " >>, << "-" >>, << "TAB" >>, << "LF" >>, << "1" >> }

TargetLangs ==
    { Letters(n) \o tail : n \in {0, 1, LANG_MAX - 1, LANG_MAX}, tail \in LangTails }

Texts == {"hola"}
Refined == {"Hola.", ""}

\* [a-zA-Z\s\-]
LangClass == {"a", " ", "TAB", "LF", "-"}

\* re.match(r"^[a-zA-Z\s\-]{2,20}$", target_lang): LANG_MIN to LANG_MAX
\* characters of the class, then the end of the string or the newline that
\* ends the string ($ matches before a final newline).
re_match(target_lang) ==
    \E k \in LANG_MIN..LANG_MAX :
        /\ k <= Len(target_lang)
        /\ \A i \in 1..k : target_lang[i] \in LangClass
        /\ \/ k = Len(target_lang)
           \/ k = Len(target_lang) - 1 /\ target_lang[Len(target_lang)] = "LF"

\* LinuxClipboardAdapter.copy(text): nothing for an empty text; otherwise the
\* text is piped to xclip / wl-copy, whose failure (tool_ok false) is logged
\* and swallowed.
copy(clipboard, text, tool_ok) ==
    IF text = "" THEN clipboard
    ELSE IF tool_ok THEN text
    ELSE clipboard

FallbackEmpty(call) == ""

\* What the except branch of process_text copies and returns.
FallbackText(call) == call.text

\* A call proceeds to `await self.llm_service....`.
AwaitLlm(call) ==
    llm' = [llm EXCEPT !.in_flight = Append(@, call),
                       !.n_calls = @ + 1,
                       !.llm_calls = @ + 1]

\* A call finishes.
Finished(call, fields, clipboard) ==
    [llm EXCEPT !.clipboard = clipboard,
                !.last = [fields EXCEPT !.impl = call.impl, !.op = call.op,
                                        !.text = call.text,
                                        !.target_lang = call.target_lang,
                                        !.clipboard_before = llm.clipboard]]

\* process_text(text) / ProcessTextHandler.handle(command) up to the await.
ProcessTextBegin(impl, text) ==
    /\ llm.n_calls < MaxCalls
    /\ Len(llm.in_flight) < 2
    /\ AwaitLlm([impl |-> impl, op |-> "process", text |-> text,
                 target_lang |-> <<>>])
    /\ UNCHANGED exceptLlm

\* translate_text(text, target_lang) / TranslateTextHandler.handle(command) up
\* to the await, or all of it when the language is refused.
TranslateTextBegin(impl, text, target_lang) ==
    /\ llm.n_calls < MaxCalls
    /\ Len(llm.in_flight) < 2
    /\ LET call == [impl |-> impl, op |-> "translate", text |-> text,
                    target_lang |-> target_lang]
       IN  IF ~re_match(target_lang)
           THEN llm' = [Finished(call,
                          [NoCall EXCEPT
                             !.returned = IF impl = "orchestrator" THEN text
                                          ELSE "None",
                             !.backend = IF impl = "orchestrator" THEN "error"
                                         ELSE "",
                             !.notified = << "Error" >>],
                          llm.clipboard)
                        EXCEPT !.n_calls = @ + 1]
           ELSE AwaitLlm(call)
    /\ UNCHANGED exceptLlm

Without(seq, i) == SubSeq(seq, 1, i - 1) \o SubSeq(seq, i + 1, Len(seq))

\* The LLM port answers the i-th suspended call with `refined` (llm_ok) or
\* raises; the call runs to its return. tool_ok: whether the clipboard tool
\* works.
LlmAnswers(i, llm_ok, refined, tool_ok) ==
    /\ i \in DOMAIN llm.in_flight
    /\ LET call == llm.in_flight[i]
           base == [NoCall EXCEPT !.llm_called = TRUE, !.llm_ok = llm_ok,
                                  !.refined = IF llm_ok THEN refined ELSE "",
                                  !.tool_ok = tool_ok]
           done ==
             IF call.op = "process"
             THEN IF llm_ok
                  THEN Finished(call,
                         [base EXCEPT !.returned = refined,
                                      !.backend = "backend",
                                      !.notified = << "copiado" >>],
                         copy(llm.clipboard, refined, tool_ok))
                  ELSE Finished(call,
                         [base EXCEPT
                            !.returned = FallbackText(call),
                            !.backend = "backend (fallback)",
                            !.notified = IF call.impl = "orchestrator"
                                         THEN << "fallo" >>
                                         ELSE << "fallo", "copiado (crudo)" >>],
                         copy(llm.clipboard, FallbackText(call), tool_ok))
             ELSE IF llm_ok
                  THEN Finished(call,
                         [base EXCEPT !.returned = refined,
                                      !.backend = "backend",
                                      !.notified = << "Traduccion" >>],
                         IF call.impl = "orchestrator"
                         THEN copy(llm.clipboard, refined, tool_ok)
                         ELSE llm.clipboard)
                  ELSE Finished(call,
                         [base EXCEPT
                            !.returned = IF call.impl = "orchestrator"
                                         THEN call.text ELSE "None",
                            !.backend = "backend (error)",
                            !.notified = << "Error traduccion" >>],
                         llm.clipboard)
       IN  llm' = [done EXCEPT !.in_flight = Without(@, i)]
    /\ UNCHANGED exceptLlm

NextLlm ==
    \/ \E impl \in {"orchestrator", "handler"}, text \in Texts :
          ProcessTextBegin(impl, text)
    \/ \E impl \in {"orchestrator", "handler"}, text \in Texts,
          target_lang \in TargetLangs :
          TranslateTextBegin(impl, text, target_lang)
    \/ \E i \in 1..2, llm_ok, tool_ok \in BOOLEAN, refined \in Refined :
          LlmAnswers(i, llm_ok, refined, tool_ok)

SpecLlm == Init /\ [][NextLlm]_vars

\* ---------------------------------------------------------------------------
\* FileTranscriptionService._extract_audio_async: the ffmpeg subprocess.

\* Time passes in steps of a minute.
TimeStep == FFMPEG_TIMEOUT_AUDIO \div 2

NoProc == 0

Waiting(x) == x.pc = "communicate"

\* timeout = FFMPEG_TIMEOUT_VIDEO if is_video else FFMPEG_TIMEOUT_AUDIO
TimeoutOf(is_video) ==
    IF is_video THEN FFMPEG_TIMEOUT_VIDEO ELSE FFMPEG_TIMEOUT_AUDIO

ExtractionEnds(x, outcome, message) ==
    [x EXCEPT !.pc = "done", !.outcome = outcome, !.message = message]

\* transcribe_file up to the await of communicate(): a video without ffmpeg
\* is refused, create_subprocess_exec raises FileNotFoundError when the
\* binary is missing, otherwise the subprocess is spawned.
ExtractBegin(is_video, ffmpeg_found) ==
    /\ Len(ffmpeg.extractions) < MaxExtractions
    /\ LET x == [is_video |-> is_video, pc |-> "communicate", waited |-> 0,
                 proc |-> NoProc, outcome |-> "", message |-> ""]
       IN  IF ~ffmpeg_found
           THEN ffmpeg' = [ffmpeg EXCEPT !.extractions = Append(@,
                   IF is_video
                   THEN ExtractionEnds(x, "RuntimeError", "FFmpeg es requerido")
                   ELSE ExtractionEnds(x, "FileNotFoundError", "ffmpeg"))]
           ELSE ffmpeg' = [ffmpeg EXCEPT
                   !.procs = Append(@, [running |-> TRUE, reaped |-> FALSE,
                                        returncode |-> 0]),
                   !.extractions = Append(@,
                       [x EXCEPT !.proc = Len(ffmpeg.procs) + 1])]
    /\ UNCHANGED exceptFfmpeg

\* A minute passes; no wait is already past its timeout.
ExtractTick ==
    /\ \E i \in DOMAIN ffmpeg.extractions : Waiting(ffmpeg.extractions[i])
    /\ \A i \in DOMAIN ffmpeg.extractions :
          LET x == ffmpeg.extractions[i]
          IN  Waiting(x) => x.waited < TimeoutOf(x.is_video)
    /\ ffmpeg' = [ffmpeg EXCEPT !.extractions =
                    [i \in DOMAIN @ |->
                       IF Waiting(@[i]) THEN [@[i] EXCEPT !.waited = @ + TimeStep]
                       ELSE @[i]]]
    /\ UNCHANGED exceptFfmpeg

\* An ffmpeg process exits with `returncode`; the event loop's child watcher
\* waits for it.
ProcExits(p, returncode) ==
    /\ p \in DOMAIN ffmpeg.procs
    /\ ffmpeg.procs[p].running
    /\ ffmpeg' = [ffmpeg EXCEPT !.procs[p] =
                    [running |-> FALSE, reaped |-> TRUE,
                     returncode |-> returncode]]
    /\ UNCHANGED exceptFfmpeg

\* proc.communicate() returns: the process has exited and its pipes are read.
CommunicateReturns(i) ==
    /\ i \in DOMAIN ffmpeg.extractions
    /\ Waiting(ffmpeg.extractions[i])
    /\ LET x == ffmpeg.extractions[i]
           p == ffmpeg.procs[x.proc]
       IN  /\ ~p.running
           /\ ffmpeg' = [ffmpeg EXCEPT !.extractions[i] =
                 IF p.returncode # 0
                 THEN ExtractionEnds(x, "RuntimeError", "error ffmpeg: stderr")
                 ELSE ExtractionEnds(x, "audio_data", "")]
    /\ UNCHANGED exceptFfmpeg

\* wait_for raises asyncio.TimeoutError: RuntimeError("timeout ... (Ns)").
\* wait_for cancels proc.communicate(); nothing signals or waits for the
\* process.
ExtractTimeout(i) ==
    /\ i \in DOMAIN ffmpeg.extractions
    /\ Waiting(ffmpeg.extractions[i])
    /\ LET x == ffmpeg.extractions[i]
       IN  /\ x.waited >= TimeoutOf(x.is_video)
           /\ ffmpeg' = [ffmpeg EXCEPT
                 !.extractions[i] = ExtractionEnds(x, "RuntimeError", "timeout")]
    /\ UNCHANGED exceptFfmpeg

NextFfmpeg ==
    \/ \E is_video, ffmpeg_found \in BOOLEAN : ExtractBegin(is_video, ffmpeg_found)
    \/ ExtractTick
    \/ \E p \in 1..MaxExtractions, returncode \in {0, 1} : ProcExits(p, returncode)
    \/ \E i \in 1..MaxExtractions : CommunicateReturns(i)
    \/ \E i \in 1..MaxExtractions : ExtractTimeout(i)

SpecFfmpeg == Init /\ [][NextFfmpeg]_vars

\* What the stream holds back: the samples read and not yet yielded, the chunk
\* at the current yield excluded.
RasRetained ==
    IF ras.pc = "yield"
    THEN Slice(ras.full_buffer, ras.start_idx + CHUNK_SIZE, Len(ras.full_buffer))
    ELSE Concat(ras.buffer_list)

\* C22: RustAudioStream.__aiter__ yields only chunks of exactly CHUNK_SIZE (512)
\* samples; the chunks yielded so far, concatenated, followed by what the
\* stream holds back are exactly the samples read so far, in order (so the
\* yielded samples are a prefix of the samples read: none lost, duplicated or
\* reordered); and whenever the stream waits for data it holds back fewer than
\* CHUNK_SIZE samples, buffer_len being their number.
C22_RechunkingKeepsSamples ==
    /\ \A i \in DOMAIN ras.yielded : Len(ras.yielded[i]) = CHUNK_SIZE
    /\ ras.pc \in {"wait", "yield"}
          => ras.reads = Concat(ras.yielded) \o RasRetained
    /\ Len(Concat(ras.yielded)) <= Len(ras.reads)
    /\ SubSeq(ras.reads, 1, Len(Concat(ras.yielded))) = Concat(ras.yielded)
    /\ ras.pc = "wait"
          => /\ ras.buffer_len < CHUNK_SIZE
             /\ ras.buffer_len = Len(Concat(ras.buffer_list))

\* Reads of 200, 200, 200 and 500 samples: two chunks were yielded, 76 samples
\* are held back.
C22_Witness ==
    /\ ras.n_reads = 4
    /\ Len(ras.reads) = 1100
    /\ ras.pc = "wait"
    /\ Len(ras.yielded) = 2
    /\ ras.buffer_len = 76
    /\ Len(ras.buffer_list) = 1

\* The first n elements of a sequence, all of it when it is shorter.
Truncate(seq, n) == SubSeq(seq, 1, IF Len(seq) < n THEN Len(seq) ELSE n)

\* The step in which a stop() of the Python engine returns.
RecorderStopReturns == rec.stop_pc = "counted" /\ rec'.stop_pc = "idle"

\* Nothing is written once stop() has read recorded_samples.
NoWriteAfterCount ==
    rec.stop_pc = "counted"
        => /\ rec'._buffer = rec._buffer
           /\ rec'._write_pos = rec._write_pos

\* C23: AudioRecorder.stop() returns, in capture order, the samples of the
\* callbacks that found _recording set since the most recent start(), cut to
\* the first max_samples of them (what arrives at a full buffer, or after
\* stop() has cleared _recording, is discarded); and under any interleaving of
\* the callback thread with stop() neither the buffer nor the write position
\* changes after stop() has read the sample count.
C23_StopReturnsAcceptedSamples ==
    [][ /\ RecorderStopReturns => rec'.returned = Truncate(rec.accepted, max_samples)
        /\ NoWriteAfterCount ]_vars

\* C23 as stated: stop() returns exactly the samples delivered to the
\* callbacks since the most recent start().
C23_StopReturnsDeliveredSamples ==
    [][ /\ RecorderStopReturns => rec'.returned = rec.delivered
        /\ NoWriteAfterCount ]_vars

\* A stop() returned a full buffer after more samples than fit were accepted
\* and after a callback ran while it was stopping.
C23_Witness ==
    /\ rec.stop_pc = "idle"
    /\ rec.stop_log # <<>>
    /\ rec.stop_log[Len(rec.stop_log)] = "python"
    /\ ~rec._recording
    /\ Len(rec.returned) = max_samples
    /\ Len(rec.accepted) > max_samples
    /\ Len(rec.delivered) > Len(rec.accepted)

LastStart(R) == R.start_log[Len(R.start_log)]

\* C24: start() on a recorder that is recording raises RecordingError
\* ("already") and changes neither _recording, the stream, the buffer nor the
\* write position; on a recorder that is not recording it succeeds and leaves
\* it recording when the Rust engine starts or PortAudio is installed and the
\* input stream opens, whatever happened before, and otherwise raises
\* RecordingError and leaves it not recording with no stream open.
C24_StartRejectedOrUnavailable ==
    [][ \A rust_ok, device_ok \in BOOLEAN :
          RecStart(rust_ok, device_ok)
            => IF rec._recording
               THEN /\ LastStart(rec') = "already"
                    /\ rec'._recording
                    /\ rec'._stream = rec._stream
                    /\ rec'._buffer = rec._buffer
                    /\ rec'._write_pos = rec._write_pos
                    /\ rec'.accepted = rec.accepted
               ELSE IF \/ rec._rust_recorder /\ rust_ok
                       \/ rec.HAS_SOUNDDEVICE /\ device_ok
               THEN LastStart(rec') = "ok" /\ rec'._recording
               ELSE /\ LastStart(rec') = "unavailable"
                    /\ ~rec'._recording
                    /\ ~rec'._stream ]_vars

\* A start() found no backend, the next one was accepted, and a third one was
\* rejected while samples were in the buffer.
C24_Witness ==
    /\ rec.start_log = << "unavailable", "ok", "already" >>
    /\ rec._recording
    /\ rec._write_pos > 0

\* C25: the write position is always between 0 and the capacity max_samples
\* (max_duration_sec * sample_rate), and the buffer, once allocated, always has
\* exactly max_samples samples.
C25_WritePosWithinCapacity ==
    /\ 0 <= rec._write_pos
    /\ rec._write_pos <= max_samples
    /\ rec._buffer # NoBuffer => Len(rec._buffer) = max_samples

\* A callback has run with the buffer full.
C25_Witness ==
    /\ rec._write_pos = max_samples
    /\ Len(rec.accepted) > max_samples
    /\ rec.cb_pc = "idle"
    /\ rec._recording

\* C26: at capacity the newest samples replace the oldest: while the input
\* stream is open and no callback is running, the last max_samples samples
\* accepted are all in the buffer.
C26_OverrunOverwritesOldest ==
    rec._stream /\ rec.cb_pc = "idle"
        => LET n == Len(rec.accepted)
               m == IF n < max_samples THEN n ELSE max_samples
           IN  \A k \in (n - m + 1)..n :
                  \E j \in DOMAIN rec._buffer : rec._buffer[j] = rec.accepted[k]

\* What the callback does at capacity: the first max_samples samples accepted
\* stay in the buffer, in order, the later ones are discarded.
OverrunKeepsOldest ==
    rec._stream /\ rec.cb_pc = "idle"
        => SubSeq(rec._buffer, 1, rec._write_pos)
              = Truncate(rec.accepted, max_samples)

\* The jobs that asked for the model.
ModelJobs ==
    { i \in DOMAIN whisper.jobs :
         whisper.jobs[i].result \in {"text", "transcribe error", "load error"} }

\* C27: once a job has failed with the load error (the accelerator load and the
\* CPU int8 retry both failed), every later job that needs the model fails
\* with the load error without another WhisperModel(...) call.
C27_FailedStateFailsFast ==
    \A i, j \in ModelJobs :
        i < j /\ whisper.jobs[i].result = "load error"
            => /\ whisper.jobs[j].result = "load error"
               /\ whisper.jobs[j].loads = 0

\* What the model property does: a job makes no load when the model is held,
\* one load when the configured device loads or is not "cuda", and exactly one
\* more, on CPU int8, when the "cuda" load fails; a job fails with the load
\* error only after every load it was allowed has failed, and while no job
\* has loaded the model _model stays None, so the next job loads again.
FallbackOncePerJob ==
    /\ whisper.loads <= 2
    /\ whisper.pc = "fallback" => whisper.loads = 1 /\ whisper.device = "cuda"
    /\ \A i \in ModelJobs :
          LET job == whisper.jobs[i]
          IN  /\ job.loads <= (IF whisper.device = "cuda" THEN 2 ELSE 1)
              /\ job.result = "load error"
                    => job.loads = (IF whisper.device = "cuda" THEN 2 ELSE 1)
    /\ (\A i \in ModelJobs : whisper.jobs[i].result = "load error")
          /\ whisper.pc \in {"idle", "load", "fallback"}
          => whisper._model = "None"

\* The pattern of the specification, ^[A-Za-z \-]{2,20}$: LANG_MIN to LANG_MAX
\* characters, each an ASCII letter, a space or a hyphen.
SpecPattern(target_lang) ==
    /\ Len(target_lang) >= LANG_MIN
    /\ Len(target_lang) <= LANG_MAX
    /\ \A i \in DOMAIN target_lang : target_lang[i] \in {"a", " ", "-"}

\* A translate call is refused: no LLM call, the clipboard and the recording
\* state as before.
TranslateRefused ==
    /\ llm'.llm_calls = llm.llm_calls
    /\ llm'.in_flight = llm.in_flight
    /\ llm'.clipboard = llm.clipboard
    /\ ~llm'.last.llm_called
    /\ llm'.last.notified = << "Error" >>
    /\ UNCHANGED << _is_recording, recording_flag, _recording >>

\* A translate call goes on to the LLM port with its target language.
TranslatePassedOn(target_lang) ==
    /\ llm'.llm_calls = llm.llm_calls + 1
    /\ llm'.in_flight # <<>>
    /\ llm'.in_flight[Len(llm'.in_flight)].target_lang = target_lang

\* C28: translate_text refuses, without calling the LLM port and without
\* changing the clipboard or the recording state, every target language that
\* is not LANG_MIN to LANG_MAX characters drawn from ASCII letters, space and
\* hyphen, and passes every other target language on to the LLM port.
C28_InvalidLanguageRefused ==
    [][ \A impl \in {"orchestrator", "handler"}, text \in Texts,
           target_lang \in TargetLangs :
          llm'.n_calls > llm.n_calls
          /\ TranslateTextBegin(impl, text, target_lang)
            => IF SpecPattern(target_lang) THEN TranslatePassedOn(target_lang)
               ELSE TranslateRefused ]_vars

\* What the code refuses and passes on: the languages that re.match with
\* [a-zA-Z\s\-] and $ does not, respectively does, accept.
TranslateValidatesByRegex ==
    [][ \A impl \in {"orchestrator", "handler"}, text \in Texts,
           target_lang \in TargetLangs :
          llm'.n_calls > llm.n_calls
          /\ TranslateTextBegin(impl, text, target_lang)
            => /\ IF re_match(target_lang) THEN TranslatePassedOn(target_lang)
                  ELSE TranslateRefused
               /\ SpecPattern(target_lang) => re_match(target_lang) ]_vars

\* The step in which a process_text call returns.
ProcessReturns ==
    /\ llm'.n_calls = llm.n_calls
    /\ Len(llm'.in_flight) < Len(llm.in_flight)
    /\ llm'.last.op = "process"

\* C29: process_text always returns; when the LLM call succeeds it returns
\* the refined text and hands it to the clipboard adapter, after which the
\* clipboard holds it unless it is empty or the clipboard tool fails (the
\* clipboard then keeps what it held); when the LLM call fails it returns the
\* original text, notifies the user of the failure and hands the original
\* text to the clipboard adapter in the same way.
C29_ProcessTextCopiesWhatItReturns ==
    [][ ProcessReturns
          => LET call == llm'.last
                 kept == call.returned = "" \/ ~call.tool_ok
             IN  /\ call.llm_called
                 /\ call.returned = (IF call.llm_ok THEN call.refined
                                     ELSE call.text)
                 /\ llm'.clipboard = (IF kept THEN llm.clipboard
                                      ELSE call.returned)
                 /\ call.llm_ok => call.notified = << "copiado" >>
                 /\ ~call.llm_ok => call.notified[1] = "fallo" ]_vars

\* C29 as stated: after process_text the clipboard holds the refined text
\* when the LLM call succeeded and the original text when it failed.
C29_ProcessTextLeavesTextInClipboard ==
    [][ ProcessReturns
          => LET call == llm'.last
             IN  /\ call.returned = (IF call.llm_ok THEN call.refined
                                     ELSE call.text)
                 /\ llm'.clipboard = call.returned
                 /\ ~call.llm_ok => call.notified # <<>> ]_vars

\* A process_text call whose LLM call failed has returned the original text
\* and the clipboard, which held something else, holds the original text.
C29_Witness ==
    /\ llm.last.op = "process"
    /\ llm.last.llm_called
    /\ ~llm.last.llm_ok
    /\ llm.last.returned = llm.last.text
    /\ llm.last.clipboard_before # llm.last.text
    /\ llm.clipboard = llm.last.text
    /\ llm.n_calls = 2

\* The extractions that have returned or failed after spawning ffmpeg.
EndedExtractions ==
    { i \in DOMAIN ffmpeg.extractions :
         /\ ffmpeg.extractions[i].pc = "done"
         /\ ffmpeg.extractions[i].proc # NoProc }

\* C30: when a file request has returned or failed, the ffmpeg subprocess
\* spawned for it has terminated and has been waited for, and a request that
\* failed on a timeout or on a non-zero exit failed with ffmpeg's stderr.
C30_TranscoderReapedBeforeReturn ==
    \A i \in EndedExtractions :
        LET x == ffmpeg.extractions[i]
            p == ffmpeg.procs[x.proc]
        IN  /\ ~p.running
            /\ p.reaped
            /\ x.outcome = "RuntimeError" => x.message = "error ffmpeg: stderr"

\* What the code does: a request that ended otherwise than by the timeout
\* ended after its ffmpeg process had exited and been waited for, with
\* ffmpeg's stderr if the exit code was not zero; a request ends by the
\* timeout only after waiting FFMPEG_TIMEOUT_AUDIO (FFMPEG_TIMEOUT_VIDEO for a
\* video) seconds, with the message "timeout".
ReapedUnlessTimedOut ==
    \A i \in EndedExtractions :
        LET x == ffmpeg.extractions[i]
            p == ffmpeg.procs[x.proc]
        IN  IF x.message = "timeout"
            THEN x.waited >= TimeoutOf(x.is_video)
            ELSE /\ ~p.running /\ p.reaped
                 /\ x.outcome = "RuntimeError" <=> p.returncode # 0
                 /\ x.outcome = "RuntimeError" => x.message = "error ffmpeg: stderr"

\* ---------------------------------------------------------------------------
\* The loop's comparisons at their boundaries (timing specification).

\* Task t has just read a chunk below the energy threshold while it held a
\* segment: the silence branch of the loop ran.               (lines 167-173)
SilenceTick(t) ==
    /\ ReadsChunk(t)
    /\ ~LastChunkIsSpeech(t)
    /\ tasks'[t].current_segment_audio # <<>>

\* Task t leaves its while loop in this step: the stop event was seen. (line 122)
LoopExits(t) ==
    /\ t \in DOMAIN tasks
    /\ tasks[t].pc \notin {"stop_infer", "stop_emit", "done"}
    /\ tasks'[t].pc \in {"stop_infer", "done"}

\* The silence measured on the tick just taken: time.time() - _silence_start
measured_silence == now' - _silence_start'

\* C31: a segment of exactly MIN_SEGMENT_DURATION is eligible at each of the
\* three inference sites: a speech chunk read more than PROVISIONAL_INTERVAL
\* after the last provisional submits a provisional inference, a silent chunk
\* with more than the threshold of silence submits the final inference of a
\* commit, and the end of the loop on stop submits the final inference on stop.
C31_MinSegmentIsEligible ==
    [][ \A t \in 1..MaxRequests :
          /\ (/\ ReadsChunk(t)
              /\ LastChunkIsSpeech(t)
              /\ now' - tasks[t].last_provisional_time > PROVISIONAL_INTERVAL
              /\ tasks'[t].segment_duration = MIN_SEGMENT_DURATION)
             => tasks'[t].pc = "prov_infer"
          /\ (/\ SilenceTick(t)
              /\ measured_silence > _silence_commit_ms
              /\ tasks'[t].segment_duration = MIN_SEGMENT_DURATION)
             => tasks'[t].pc = "final_infer"
          /\ (/\ LoopExits(t)
              /\ tasks'[t].current_segment_audio # <<>>
              /\ tasks'[t].segment_duration = MIN_SEGMENT_DURATION)
             => tasks'[t].pc = "stop_infer" ]_vars

\* What the three comparisons do (lines 157, 177, 200): a step that leaves a
\* segment of exactly MIN_SEGMENT_DURATION submits no inference.
MinSegmentNeverInferred ==
    [][ \A t \in 1..MaxRequests :
          (/\ t \in DOMAIN tasks
           /\ tasks[t].pc \notin InferPcs
           /\ tasks'[t].current_segment_audio # <<>>
           /\ tasks'[t].segment_duration = MIN_SEGMENT_DURATION)
          => tasks'[t].pc \notin InferPcs ]_vars

\* Each of the three sites is reached with a segment of exactly
\* MIN_SEGMENT_DURATION: a silent tick after more than the threshold of
\* silence, and the loop returned on stop with such a segment.
MinSegmentAtSilenceTick ==
    \E t \in DOMAIN tasks :
        /\ tasks[t].pc = "wait"
        /\ tasks[t].segment_duration = MIN_SEGMENT_DURATION
        /\ _silence_start # NoTime
        /\ now - _silence_start > _silence_commit_ms

\* C32: a silent chunk read with a segment of more than MIN_SEGMENT_DURATION
\* when the measured silence is exactly the silence-commit threshold commits
\* the segment on that tick: its final inference is submitted.
C32_ExactSilenceCommits ==
    [][ \A t \in 1..MaxRequests :
          (/\ SilenceTick(t)
           /\ measured_silence = _silence_commit_ms
           /\ tasks'[t].segment_duration > MIN_SEGMENT_DURATION)
          => tasks'[t].pc = "final_infer" ]_vars

\* What line 176 does: a silent tick commits exactly when the measured silence
\* is more than the threshold and the segment longer than MIN_SEGMENT_DURATION.
SilenceCommitsBeyondThreshold ==
    [][ \A t \in 1..MaxRequests :
          SilenceTick(t)
          => (tasks'[t].pc = "final_infer"
              <=> /\ measured_silence > _silence_commit_ms
                  /\ tasks'[t].segment_duration > MIN_SEGMENT_DURATION) ]_vars

\* A tick with exactly the threshold of silence and a long enough segment
\* has passed without a commit.
ExactSilenceTick ==
    \E t \in DOMAIN tasks :
        /\ tasks[t].pc = "wait"
        /\ tasks[t].segment_duration > MIN_SEGMENT_DURATION
        /\ _silence_start # NoTime
        /\ now - _silence_start = _silence_commit_ms
        /\ CommitsOf(t) = <<>>

IsSpeech(chunk) == _detect_speech_energy(chunk, _speech_threshold)

\* The index in a segment of the first chunk of its trailing run of silent
\* chunks (one past the end when the last chunk is speech).
TrailingFrom(audio) ==
    CHOOSE i \in 1..(Len(audio) + 1) :
        /\ \A j \in i..Len(audio) : ~IsSpeech(audio[j])
        /\ i > 1 => IsSpeech(audio[i - 1])

\* Task t submits the final inference of a silence commit in this step.
SilenceCommitBegins(t) ==
    /\ t \in DOMAIN tasks
    /\ tasks[t].pc # "final_infer"
    /\ tasks'[t].pc = "final_infer"

\* C33: a silence commit begins only on a tick whose chunk is silent, after a
\* run of silent chunks that follows a speech chunk of the segment, the silence
\* timer holding the time the first chunk of the run was read at and more than
\* the threshold having passed since; a tick whose chunk is speech clears the
\* timer and begins no commit.
C33_CommitOnlyAfterUnbrokenSilence ==
    [][ \A t \in 1..MaxRequests :
          /\ SilenceCommitBegins(t)
             => LET audio == tasks'[t].current_segment_audio
                    first == TrailingFrom(audio)
                IN  /\ ReadsChunk(t)
                    /\ ~LastChunkIsSpeech(t)
                    /\ audio[Len(audio)].n = chunk_no'
                    /\ 1 < first /\ first <= Len(audio)
                    /\ _silence_start' = audio[first].at
                    /\ now' - audio[first].at > _silence_commit_ms
          /\ (ReadsChunk(t) /\ LastChunkIsSpeech(t))
             => /\ _silence_start' = NoTime
                /\ ~SilenceCommitBegins(t) ]_vars

\* A silence commit has begun in a segment whose silence was broken by speech
\* before: speech, silence, speech, then the run of silent chunks that commits.
C33_Witness ==
    \E t \in DOMAIN tasks :
        LET audio == tasks[t].current_segment_audio
        IN  /\ tasks[t].pc = "final_infer"
            /\ \E i, j \in DOMAIN audio :
                   /\ i < j /\ j < TrailingFrom(audio)
                   /\ ~IsSpeech(audio[i]) /\ IsSpeech(audio[j])
                   /\ \E k \in 1..(i - 1) : IsSpeech(audio[k])

\* Task t opens a segment in this step: it reads a speech chunk while it holds
\* no segment.                                                (lines 138-141)
SpeechStarts(t) ==
    /\ ReadsChunk(t)
    /\ LastChunkIsSpeech(t)
    /\ tasks[t].current_segment_audio = <<>>

\* C34: the pre-roll buffer never holds more than PRE_ROLL_CHUNKS chunks and
\* holds the last non-empty chunks read, in the order they were read; a speech
\* chunk read with no segment opens a segment that is the pre-roll buffer: the
\* speech chunk once, as its last chunk, after at most two earlier chunks.
C34_PreRollOpensSegment ==
    /\ [](LET n == Len(_pre_roll_buffer)
          IN  /\ n <= PRE_ROLL_CHUNKS
              /\ n = IF chunk_no < PRE_ROLL_CHUNKS THEN chunk_no
                     ELSE PRE_ROLL_CHUNKS
              /\ \A i \in 1..n : _pre_roll_buffer[i].n = chunk_no - n + i)
    /\ [][ \A t \in 1..MaxRequests :
              SpeechStarts(t)
              => LET audio == tasks'[t].current_segment_audio
                 IN  /\ audio = _pre_roll_buffer'
                     /\ audio[Len(audio)].n = chunk_no'
                     /\ Cardinality({i \in DOMAIN audio :
                                        audio[i].n = chunk_no'}) = 1
                     /\ Len(audio) - 1 <= PRE_ROLL_CHUNKS - 1
                     /\ tasks'[t].segment_duration = SumMs(audio) ]_vars

\* A segment has just been opened by the fourth chunk or a later one: the ring
\* had dropped its oldest chunk, and the segment is two silent chunks and the
\* speech chunk.
C34_Witness ==
    \E t \in DOMAIN tasks :
        LET audio == tasks[t].current_segment_audio
        IN  /\ chunk_no > PRE_ROLL_CHUNKS
            /\ audio = _pre_roll_buffer
            /\ Len(audio) = PRE_ROLL_CHUNKS
            /\ ~IsSpeech(audio[1]) /\ ~IsSpeech(audio[2]) /\ IsSpeech(audio[3])
            /\ audio[3].n = chunk_no

\* ---------------------------------------------------------------------------
\* The recording state across overlapping requests.

\* No request is suspended: every request handled so far has its response.
NoRequestInFlight == \A r \in DOMAIN requests : requests[r].resp # Pending

\* A start was let through by Orchestrator.start while the loop of a session
\* being stopped was still live: StreamingTranscriber.start returned at once.
StartedDuringStop ==
    \E r \in DOMAIN requests :
        /\ requests[r].op = "start"
        /\ ~requests[r].was_recording
        /\ requests[r].task_was_live

\* C35: whenever no request is in flight, _is_recording is true if and only if
\* a streaming loop task is live and the recorder is started.
C35_RecordingIffLoopAndRecorder ==
    NoRequestInFlight
    => (_is_recording <=> (StreamingActive /\ _recording))

\* The same for the histories in which no start was handled while the loop of
\* a stopping session was live.
RecordingIffLoopWithoutOverlap ==
    (NoRequestInFlight /\ ~StartedDuringStop)
    => (_is_recording <=> (StreamingActive /\ _recording))

\* ---------------------------------------------------------------------------
\* Termination of StreamingTranscriber.stop().

\* Request r is a stop suspended in `await self._streaming_task`.
StopSuspended(r) ==
    /\ r \in DOMAIN requests
    /\ requests[r].op = "stop"
    /\ requests[r].resp = Pending

\* Request r is a stop whose loop task has returned and which has its response.
StopAnswered(r) ==
    /\ r \in DOMAIN requests
    /\ requests[r].resp # Pending
    /\ requests[r].awaiting # NoTask
    /\ TaskDone(requests[r].awaiting)

\* C36: a stop that awaits the loop of an active session is eventually
\* answered, the loop having returned, whether or not the recorder delivers
\* audio after the stop was requested.
C36_StopEventuallyReturns ==
    \A r \in 1..MaxRequests : StopSuspended(r) ~> StopAnswered(r)

\* What the code guarantees: a suspended stop whose loop is past its
\* wait_for_data (in an inference) is eventually answered.
StopReturnsOnceLoopWakes ==
    \A r \in 1..MaxRequests :
        (StopSuspended(r) /\ tasks[requests[r].awaiting].pc # "wait")
        ~> StopAnswered(r)

\* ---------------------------------------------------------------------------
\* Audio carried from one segment or session to the next.

\* The numbers of the chunks in a segment buffer.
ChunkNumbers(audio) == {audio[i].n : i \in DOMAIN audio}

\* The commits of segments that task t no longer holds: every commit but the
\* one of the segment in its buffer. For a running loop they are all earlier
\* than the segment it holds.
FlushedCommits(t) ==
    {i \in DOMAIN commits :
        ~(/\ commits[i].task = t
          /\ tasks[t].current_segment_audio # <<>>
          /\ commits[i].seg = tasks[t].current_segment_audio[1].n)}

\* C37: the segment a running session holds has no chunk of a segment committed
\* earlier and no chunk read before the session's start(); after a commit has
\* flushed, and after start(), no chunk of an earlier segment or session is
\* left for a later segment.
C37_NoAudioCarriedOver ==
    \A t \in LiveTasks :
        LET held == ChunkNumbers(tasks[t].current_segment_audio)
        IN  /\ \A i \in FlushedCommits(t) :
                   held \cap (commits[i].seg..commits[i].last) = {}
            /\ \A n \in held : n >= tasks[t].first_chunk

\* What lines 130-141 do: the chunks a segment shares with an earlier commit
\* or has from before its session are among the at most PRE_ROLL_CHUNKS - 1
\* chunks that precede the chunk that opened it.
CarriedOverIsPreRoll ==
    \A t \in LiveTasks :
        LET audio == tasks[t].current_segment_audio
            old == {k \in DOMAIN audio :
                      \/ audio[k].n < tasks[t].first_chunk
                      \/ \E i \in FlushedCommits(t) :
                             audio[k].n \in commits[i].seg..commits[i].last}
        IN  \A k \in old :
                /\ k <= PRE_ROLL_CHUNKS - 1
                /\ \E j \in (k + 1)..PRE_ROLL_CHUNKS :
                       j \in DOMAIN audio /\ IsSpeech(audio[j])

\* The first segment of a second session holds a chunk read by the first.
SegmentHoldsEarlierSession ==
    \E t \in LiveTasks :
        /\ t > 1
        /\ tasks[t].current_segment_audio # <<>>
        /\ tasks[t].current_segment_audio[1].n < tasks[t].first_chunk

\* A segment opened after a silence commit holds chunks of the committed one.
SegmentHoldsCommittedChunk ==
    \E t \in LiveTasks :
        \E i \in FlushedCommits(t) :
            /\ commits[i].task = t
            /\ ~commits[i].on_stop
            /\ ChunkNumbers(tasks[t].current_segment_audio)
                   \cap (commits[i].seg..commits[i].last) # {}

\* ---------------------------------------------------------------------------
\* Orchestrator.start() that answers 'error'.

\* A start request is answered 'error' in this step.
StartFails ==
    /\ Logged("start")
    /\ requests'[Len(requests')].resp.status = "error"

\* C38: after Orchestrator.start() has answered 'error', _is_recording is
\* false, no streaming loop task is live, the recorder is not started and the
\* recording flag does not exist.
C38_FailedStartLeavesIdle ==
    [][ StartFails
        => /\ ~_is_recording'
           /\ LiveTasks' = {}
           /\ ~_recording'
           /\ ~recording_flag' ]_vars

\* What the except branch does: it changes nothing. A start answered 'error'
\* leaves every variable as the try block left it when it raised: untouched
\* when recorder.start() raised, recording when touch() raised.
FailedStartUndoesNothing ==
    [][ StartFails
        => \/ UNCHANGED programState
           \/ /\ _is_recording' /\ _recording'
              /\ LiveTasks' # {}
              /\ UNCHANGED recording_flag ]_vars

\* A start was answered 'error' and the daemon is recording: the loop is live
\* and the recorder started, with no flag file.
RecordingAfterFailedStart ==
    /\ \E r \in DOMAIN requests :
           requests[r].op = "start" /\ requests[r].resp.status = "error"
    /\ Len(requests) = 1
    /\ _is_recording /\ _recording /\ LiveTasks # {}
    /\ ~recording_flag

\* ---------------------------------------------------------------------------
\* broadcast_event while subscribers come and go.

\* The broadcast task t was suspended in ends in this step: broadcast_event
\* returned or raised.
BroadcastEnds(t) ==
    /\ t \in DOMAIN tasks
    /\ tasks[t].pc \in EmitPcs
    /\ tasks'[t].pc \notin EmitPcs

\* The set of subscribers has another size than when the iteration began.
SetResized(t) == Cardinality(_websocket_clients) # tasks[t].bc_used

\* C39: whatever connected or disconnected while broadcast_event was suspended
\* in a send, when the broadcast ends every subscriber that stayed connected
\* throughout has been sent the event, and the loop that emitted it goes on:
\* it has not returned unless stop was requested.
C39_BroadcastSurvivesSetChange ==
    [][ \A t \in 1..MaxRequests :
          BroadcastEnds(t)
          => /\ emitted'[tasks[t].bc_ev].missed = {}
             /\ ~_stop_event => tasks'[t].pc # "done" ]_vars

\* What the iteration of line 118 does: a broadcast leaves a subscriber out, or
\* ends the loop that was not asked to stop, only when the set has another
\* size than when the iteration began; and with another size, and a subscriber
\* still to visit or not, it raises and the loop returns.
BroadcastFailsOnResize ==
    [][ \A t \in 1..MaxRequests :
          BroadcastEnds(t)
          => /\ (\/ emitted'[tasks[t].bc_ev].missed # {}
                 \/ ~_stop_event /\ tasks'[t].pc = "done")
                => SetResized(t)
             /\ SetResized(t) => tasks'[t].pc = "done" ]_vars

\* The loop of a session that was not asked to stop has returned, out of a
\* broadcast, and a subscriber that stayed connected was left without the event.
LoopEndedInBroadcast ==
    \E t \in DOMAIN tasks :
        /\ TaskDone(t)
        /\ ~_stop_event
        /\ t = _streaming_task
        /\ \E i \in DOMAIN emitted :
               emitted[i].task = t /\ emitted[i].missed # {}

\* ---------------------------------------------------------------------------
\* The Whisper model under concurrent reads of the property.

\* The threads whose last read of the property returned a model.
Returned == {th \in Threads : lazy_model.thr[th].pc = "returned"}

OneModelWithoutOverlap ==
    ~lazy_model.overlapped
    => /\ lazy_model.built <= 1
       /\ \A a, b \in Returned : lazy_model.thr[a].got = lazy_model.thr[b].got

\* Both threads have returned from the property, each with a model of its own.
TwoModelsReturned ==
    /\ Returned = Threads
    /\ lazy_model.built = 2
    /\ lazy_model.thr["warmup"].got # lazy_model.thr["ml"].got

====
